---- MODULE Spec2Model ----
(***************************************************************************)
(* Query Processing Engine of the product-catalog assistant:               *)
(*   src/src/rag/router.py     QueryRouter     (intent classification)     *)
(*   src/src/rag/retrieval.py  HybridRetriever (catalog lookups)           *)
(*   src/src/rag/generator.py  AnswerGenerator (answers and citations)     *)
(*   src/src/rag/engine.py     QueryEngine     (one request end to end)    *)
(*   src/src/logic/calculator.py  ElectricalCalculator (70V arithmetic)    *)
(*   src/src/rag/embeddings.py EmbeddingClient (query embeddings, cache)   *)
(*                                                                         *)
(* Text is modelled as a sequence of words (a query) or of characters (a   *)
(* model name); a regular expression is modelled by what it accepts on     *)
(* such sequences.  A number with a fraction is kept as a multiple of      *)
(* 1/One.                                                                  *)
(***************************************************************************)
EXTENDS Integers, Sequences, FiniteSets, TLC

\* ------------------------------------------------------------------ bounds
MaxQueryLen == 3        \* words in a user query
MaxLiveQueryLen == 1    \* words in a user query of the runs checked for termination
MaxRespLen == 2         \* words in the text of a classification completion
Dim == 2                \* length of an embedding vector (embedding_dimension)
MaxLimit == 2           \* largest limit passed to semantic_search
MaxNameLen == 2         \* characters in a model name looked up
MaxRows == 2            \* rows of a catalog of such names
MaxSimilarRows == 3     \* rows of a catalog searched by find_similar
MaxSpeakers == 2        \* speakers in a list given to the calculator
MaxWatts == 160         \* largest load and capacity given to the calculator
MaxLoad == 1000         \* largest load a transformer is recommended for
MaxTasks == 2           \* embed calls under way at once; texts of an embed_batch
MaxConcurrency == 1     \* largest concurrency given to embed_batch

\* 1.0 in fixed point: every average over up to six scores is exact
One == 6 * 100

\* ------------------------------------------------------------- text model
\* The words a query is made of; "" is a run of white space.
Words == {"", "price", "JBL", "4x30W", "specs", "find", "DM3", "amplifiers"}

\* str.lower() on one word
Lower(w) ==
    CASE w = "JBL" -> "jbl"
      [] w = "DM3" -> "dm3"
      [] w = "4x30W" -> "4x30w"
      [] OTHER -> w

\* str.lower() on a text
LowerText(q) == [i \in 1..Len(q) |-> Lower(q[i])]

\* re.search(pattern, word, re.IGNORECASE) for the patterns of the tables
\* below and the words above
IsPartOf(pattern, w) ==
    \/ pattern = w
    \/ pattern = "(\\d+)\\s*(?:x)\\s*(\\d+)\\s*W" /\ w = "4x30w"
    \/ pattern = "amp" /\ w = "amplifiers"

\* str.strip(): white space removed at both ends
RECURSIVE StripLeft(_)
StripLeft(q) == IF q # <<>> /\ Head(q) = "" THEN StripLeft(Tail(q)) ELSE q

RECURSIVE StripRight(_)
StripRight(q) ==
    IF q # <<>> /\ q[Len(q)] = "" THEN StripRight(SubSeq(q, 1, Len(q) - 1)) ELSE q

Strip(q) == StripRight(StripLeft(q))

\* "not query or not query.strip()"
IsBlank(q) == q = <<>> \/ Strip(q) = <<>>

\* ------------------------------------------------------------ QueryRouter
QueryType == {"direct_lookup", "semantic_search", "calculation",
              "purchase_intent", "domain_violation", "unknown"}

\* The pattern tables, one literal pattern of each table
PURCHASE_INTENT_PATTERNS == {"price"}
DOMAIN_VIOLATION_PATTERNS == {"jbl"}
CALCULATION_PATTERNS == {"calculate", "(\\d+)\\s*(?:x)\\s*(\\d+)\\s*W"}
SEMANTIC_SEARCH_PATTERNS == {"find"}
\* r"(\w+) (?:power|specs|...)": a word, one blank, a word starting so
DIRECT_LOOKUP_PATTERNS == {"specs"}

\* re.search(r'\b' + pattern + r'\b', text): the pattern as a whole word
SearchWord(pattern, text) == \E i \in 1..Len(text) : text[i] = pattern

\* re.search(pattern, text) for a literal pattern: the pattern anywhere
SearchPart(pattern, text) == \E i \in 1..Len(text) : IsPartOf(pattern, text[i])

\* re.search(r"(\w+) (?:specs)", text): a non-blank word right before it
SearchAfterWord(pattern, text) ==
    \E i \in 1..(Len(text) - 1) : text[i] # "" /\ text[i + 1] = pattern

_check_purchase_intent(query) ==
    \E p \in PURCHASE_INTENT_PATTERNS : SearchWord(p, LowerText(query))

_check_domain_violation(query) ==
    \E p \in DOMAIN_VIOLATION_PATTERNS : SearchWord(p, LowerText(query))

MatchesCalculation(query) ==
    \E p \in CALCULATION_PATTERNS : SearchPart(p, LowerText(query))

MatchesLookup(query) ==
    \E p \in DIRECT_LOOKUP_PATTERNS : SearchAfterWord(p, LowerText(query))

MatchesSearch(query) ==
    \E p \in SEMANTIC_SEARCH_PATTERNS : SearchPart(p, LowerText(query))

\* _rule_based_classify with the lookup patterns tried first
_rule_based_classify_LookupFirst(query) ==
    IF MatchesLookup(query) THEN "direct_lookup"
    ELSE IF MatchesCalculation(query) THEN "calculation"
    ELSE IF MatchesSearch(query) THEN "semantic_search"
    ELSE "None"

\* None when no group matches
_rule_based_classify(query) ==
    IF MatchesCalculation(query) THEN "calculation"
    ELSE IF MatchesLookup(query) THEN "direct_lookup"
    ELSE IF MatchesSearch(query) THEN "semantic_search"
    ELSE "None"

\* The words a completion text is made of, and str.upper() on them
RespWords == {"DIRECT_LOOKUP", "calculation", "SEARCH", "CALC", "indirect", "unsure"}

Upper(w) ==
    CASE w = "calculation" -> "CALCULATION"
      [] w = "indirect" -> "INDIRECT"
      [] w = "unsure" -> "UNSURE"
      [] OTHER -> w

\* 'fragment' in result, result being the upper-cased text
Contains(result, fragment) ==
    \E i \in 1..Len(result) :
        LET w == Upper(result[i]) IN
        \/ w = fragment
        \/ w = "DIRECT_LOOKUP" /\ fragment \in {"DIRECT", "LOOKUP"}
        \/ w = "CALCULATION" /\ fragment = "CALC"
        \/ w = "INDIRECT" /\ fragment = "DIRECT"
        \/ w = "SEMANTIC_SEARCH" /\ fragment \in {"SEMANTIC", "SEARCH"}

\* The outcomes of one POST /api/generate
Texts(n) == UNION {[1..k -> RespWords] : k \in 0..n}

Completions(n) ==
    [kind : {"raise"}, status : {0}, text : {<<>>}]
        \cup [kind : {"response"}, status : {500}, text : {<<>>}]
        \cup [kind : {"response"}, status : {200}, text : Texts(n)]

\* _llm_classify that reports an unreadable text as UNKNOWN
_llm_classify_UnknownText(completion) ==
    IF completion.kind = "raise" THEN "semantic_search"
    ELSE IF completion.status # 200 THEN "semantic_search"
    ELSE IF Contains(completion.text, "DIRECT") \/ Contains(completion.text, "LOOKUP")
        THEN "direct_lookup"
    ELSE IF Contains(completion.text, "CALCULATION") \/ Contains(completion.text, "CALC")
        THEN "calculation"
    ELSE IF Contains(completion.text, "SEMANTIC") \/ Contains(completion.text, "SEARCH")
        THEN "semantic_search"
    ELSE "unknown"

\* The intent read from the outcome of the completion call
_llm_classify(completion) ==
    IF completion.kind = "raise" THEN "semantic_search"
    ELSE IF completion.status # 200 THEN "semantic_search"
    ELSE IF Contains(completion.text, "DIRECT") \/ Contains(completion.text, "LOOKUP")
        THEN "direct_lookup"
    ELSE IF Contains(completion.text, "CALCULATION") \/ Contains(completion.text, "CALC")
        THEN "calculation"
    ELSE IF Contains(completion.text, "SEMANTIC") \/ Contains(completion.text, "SEARCH")
        THEN "semantic_search"
    ELSE "semantic_search"

\* classify that asks the completion port a second time when its first call
\* failed
classify_Retry(query, use_llm, completion) ==
    IF IsBlank(query) THEN [intent |-> "unknown", calls |-> <<>>]
    ELSE LET q == Strip(query) IN
        IF _check_purchase_intent(q)
            THEN [intent |-> "purchase_intent", calls |-> <<>>]
        ELSE IF _check_domain_violation(q)
            THEN [intent |-> "domain_violation", calls |-> <<>>]
        ELSE IF _rule_based_classify(q) # "None"
            THEN [intent |-> _rule_based_classify(q), calls |-> <<>>]
        ELSE IF use_llm
            THEN [intent |-> _llm_classify(completion),
                  calls |-> IF completion.kind = "response" /\ completion.status = 200
                            THEN <<"completion">>
                            ELSE <<"completion", "completion">>]
        ELSE [intent |-> "semantic_search", calls |-> <<>>]

\* classify with the rule layer ahead of the guardrail layer
classify_RulesFirst(query, use_llm, completion) ==
    IF IsBlank(query) THEN [intent |-> "unknown", calls |-> <<>>]
    ELSE LET q == Strip(query) IN
        IF _rule_based_classify(q) # "None"
            THEN [intent |-> _rule_based_classify(q), calls |-> <<>>]
        ELSE IF _check_purchase_intent(q)
            THEN [intent |-> "purchase_intent", calls |-> <<>>]
        ELSE IF _check_domain_violation(q)
            THEN [intent |-> "domain_violation", calls |-> <<>>]
        ELSE IF use_llm
            THEN [intent |-> _llm_classify(completion), calls |-> <<"completion">>]
        ELSE [intent |-> "semantic_search", calls |-> <<>>]

\* classify: the intent and the outbound calls made, given the outcome the
\* completion port gives when it is called
classify(query, use_llm, completion) ==
    IF IsBlank(query) THEN [intent |-> "unknown", calls |-> <<>>]
    ELSE LET q == Strip(query) IN
        IF _check_purchase_intent(q)
            THEN [intent |-> "purchase_intent", calls |-> <<>>]
        ELSE IF _check_domain_violation(q)
            THEN [intent |-> "domain_violation", calls |-> <<>>]
        ELSE IF _rule_based_classify(q) # "None"
            THEN [intent |-> _rule_based_classify(q), calls |-> <<>>]
        ELSE IF use_llm
            THEN [intent |-> _llm_classify(completion), calls |-> <<"completion">>]
        ELSE [intent |-> "semantic_search", calls |-> <<>>]

\* ------------------------------------------------- catalog (table products)
\* A nullable column, an optional argument and a key that may be missing are
\* sequences of length at most one; NULL is None in a text value.
NULL == "null"

\* The characters of model names in byte order, and UPPER() on them
Alphabet == <<"1", "3", "A", "D", "M", "P", "S", "_", "a">>

Ord(c) == CHOOSE i \in 1..Len(Alphabet) : Alphabet[i] = c

UpperChar(c) == IF c = "a" THEN "A" ELSE c

UPPER(name) == [i \in 1..Len(name) |-> UpperChar(name[i])]

\* ORDER BY model_name: a sorts strictly before b
RECURSIVE NameLess(_, _)
NameLess(a, b) ==
    IF b = <<>> THEN FALSE
    ELSE IF a = <<>> THEN TRUE
    ELSE IF Head(a) # Head(b) THEN Ord(Head(a)) < Ord(Head(b))
    ELSE NameLess(Tail(a), Tail(b))

\* The rows of a set in ORDER BY model_name (model_name is the table's key)
RECURSIVE OrderByName(_)
OrderByName(rows) ==
    IF rows = {} THEN <<>>
    ELSE LET first == CHOOSE r \in rows :
                 \A o \in rows \ {r} : NameLess(r.model_name, o.model_name)
         IN <<first>> \o OrderByName(rows \ {first})

\* LIMIT n on an ordered result
Limit(rows, n) == SubSeq(rows, 1, IF n < Len(rows) THEN n ELSE Len(rows))

\* s LIKE p: "%" stands for any run of characters, "_" for any one character
RECURSIVE Like(_, _)
Like(s, p) ==
    IF p = <<>> THEN s = <<>>
    ELSE IF Head(p) = "%" THEN Like(s, Tail(p)) \/ (s # <<>> /\ Like(Tail(s), p))
    ELSE IF s = <<>> THEN FALSE
    ELSE (Head(p) = "_" \/ Head(p) = Head(s)) /\ Like(Tail(s), Tail(p))

\* ---------------------------------------------------------- HybridRetriever
final_limit == 10

\* RetrievalResult made of a row; similarity_score defaults to 0.0
_row_to_result(row) ==
    [model_name |-> row.model_name,
     category |-> row.category,
     series |-> row.series,
     specs |-> row.specs,
     ai_summary |-> row.ai_summary,
     pdf_source |-> row.pdf_source,
     similarity_score |-> 0]

\* direct_lookup: the results the two queries can give, each None (<<>>) or
\* one result.  The exact-match query has no ORDER BY: any matching row.
direct_lookup(products, model_name) ==
    LET exact == {r \in products : UPPER(r.model_name) = UPPER(model_name)}
        partial == {r \in products :
                       Like(UPPER(r.model_name),
                            UPPER(<<"%">> \o model_name \o <<"%">>))}
    IN  IF exact # {} THEN {<<_row_to_result(r)>> : r \in exact}
        ELSE IF partial # {} THEN {<<_row_to_result(OrderByName(partial)[1])>>}
        ELSE {<<>>}

\* The WHERE clause _sql_only_search builds from the filters
SqlOnlyWhere(row, filters) ==
    /\ filters.min_watts # <<>> =>
        (row.watts_int # <<>> /\ row.watts_int[1] >= filters.min_watts[1])
    /\ filters.max_watts # <<>> =>
        (row.watts_int # <<>> /\ row.watts_int[1] <= filters.max_watts[1])
    /\ filters.voltage_type # <<>> => row.voltage_type = filters.voltage_type[1]
    /\ filters.category # <<>> => row.category = filters.category[1]

\* _sql_only_search: filter, ORDER BY model_name, LIMIT
_sql_only_search(products, filters, limit) ==
    LET rows == Limit(OrderByName({r \in products : SqlOnlyWhere(r, filters)}), limit)
    IN  [i \in 1..Len(rows) |-> _row_to_result(rows[i])]

\* _hybrid_search building its WHERE clause the way _sql_only_search does
HybridWhere_NoSeries(row, filters) ==
    /\ row.embedding # <<>>
    /\ SqlOnlyWhere(row, filters)

\* The WHERE clause _hybrid_search builds from the filters
HybridWhere(row, filters) ==
    /\ row.embedding # <<>>
    /\ filters.min_watts # <<>> =>
        (row.watts_int # <<>> /\ row.watts_int[1] >= filters.min_watts[1])
    /\ filters.max_watts # <<>> =>
        (row.watts_int # <<>> /\ row.watts_int[1] <= filters.max_watts[1])
    /\ filters.voltage_type # <<>> => row.voltage_type = filters.voltage_type[1]
    /\ filters.category # <<>> => row.category = filters.category[1]
    /\ filters.series # <<>> => row.series = filters.series[1]

\* The vectors used are unit vectors along an axis: a <=> b is 1 - a.b
RECURSIVE DotUpTo(_, _, _)
DotUpTo(a, b, n) == IF n = 0 THEN 0 ELSE a[n] * b[n] + DotUpTo(a, b, n - 1)

CosineDistance(a, b) == One - One * DotUpTo(a, b, Len(a))

\* The orders ORDER BY embedding <=> $1 LIMIT n can give: rows of equal
\* distance come in any order
NearestFirst(rows, vector, n) ==
    LET k == IF n < Cardinality(rows) THEN n ELSE Cardinality(rows)
        d(r) == CosineDistance(r.embedding, vector)
    IN  {seq \in [1..k -> rows] :
            /\ \A i, j \in 1..k : i < j =>
                (seq[i] # seq[j] /\ d(seq[i]) <= d(seq[j]))
            /\ \A r \in rows : (\A i \in 1..k : seq[i] # r) =>
                (\A i \in 1..k : d(seq[i]) <= d(r))}

\* _hybrid_search: the result lists the store can give; the store rejects a
\* query vector whose length is not that of the column
_hybrid_search(products, query_embedding, filters, limit) ==
    IF Len(query_embedding) # Dim
    THEN {[raised |-> TRUE, error |-> "different vector dimensions", value |-> <<>>]}
    ELSE {[raised |-> FALSE, error |-> "",
           value |-> [i \in 1..Len(rows) |->
               [_row_to_result(rows[i]) EXCEPT !.similarity_score =
                   One - CosineDistance(rows[i].embedding, query_embedding)]]] :
          rows \in NearestFirst({r \in products : HybridWhere(r, filters)},
                                query_embedding, limit)}

\* semantic_search, given what embed_query returned (<<>> is None)
semantic_search(products, embedded, filters, limit) ==
    LET lim == IF limit = 0 THEN final_limit ELSE limit IN
    IF embedded = <<>>
    THEN {[raised |-> FALSE, error |-> "",
           value |-> _sql_only_search(products, filters, lim)]}
    ELSE _hybrid_search(products, embedded[1], filters, lim)

\* ORDER BY CASE WHEN category = $3 THEN 0 ELSE 1 END, embedding <=> $1: the
\* sort key of a row; category = NULL is never true
SimilarKey(row, vector, category) ==
    (IF category # NULL /\ row.category = category THEN 0 ELSE 1) * (4 * One)
        + CosineDistance(row.embedding, vector)

\* The orders that ORDER BY ... LIMIT n can give: rows of equal key come in
\* any order
SimilarFirst(rows, vector, category, n) ==
    LET k == IF n < Cardinality(rows) THEN n ELSE Cardinality(rows)
        key(r) == SimilarKey(r, vector, category)
    IN  {seq \in [1..k -> rows] :
            /\ \A i, j \in 1..k : i < j =>
                (seq[i] # seq[j] /\ key(seq[i]) <= key(seq[j]))
            /\ \A r \in rows : (\A i \in 1..k : seq[i] # r) =>
                (\A i \in 1..k : key(seq[i]) <= key(r))}

\* The result lists of the second query of find_similar, given the
\* reference row's embedding ($1) and category ($3)
SimilarTo(products, model_name, limit, embedding, category) ==
    {[i \in 1..Len(rows) |->
         [_row_to_result(rows[i]) EXCEPT !.similarity_score =
             One - CosineDistance(rows[i].embedding, embedding)]] :
     rows \in SimilarFirst({r \in products :
                               /\ r.embedding # <<>>
                               /\ UPPER(r.model_name) # UPPER(model_name)},
                           embedding, category, limit)}

\* find_similar that passes no category to the second query: rows come by
\* distance alone
find_similar_DistanceOnly(products, model_name, limit) ==
    LET refs == {r \in products : UPPER(r.model_name) = UPPER(model_name)}
    IN  IF refs = {} THEN {<<>>}
        ELSE UNION {IF ref_row.embedding = <<>> THEN {<<>>}
                    ELSE SimilarTo(products, model_name, limit,
                                   ref_row.embedding, NULL) :
                    ref_row \in refs}

\* find_similar: the result lists the store can give.  The reference query
\* has no ORDER BY: any row whose name matches.
find_similar(products, model_name, limit) ==
    LET refs == {r \in products : UPPER(r.model_name) = UPPER(model_name)}
    IN  IF refs = {} THEN {<<>>}
        ELSE UNION {IF ref_row.embedding = <<>> THEN {<<>>}
                    ELSE SimilarTo(products, model_name, limit,
                                   ref_row.embedding, ref_row.category) :
                    ref_row \in refs}

\* ------------------------------------------------- QueryRouter extractors
\* extract_model_name: the first model name in the query, upper-cased, or
\* None (<<>>); of the words above only "DM3" is one (r'\b(DM\d+[A-Z]*...)\b')
extract_model_name(query) ==
    IF \E i \in 1..Len(query) : query[i] = "DM3" THEN << <<"D", "M", "3">> >>
    ELSE <<>>

NoFilters ==
    [min_watts |-> <<>>, max_watts |-> <<>>, voltage_type |-> <<>>,
     category |-> <<>>, series |-> <<>>]

\* extract_filters: of the words above only "amplifiers" holds a keyword
extract_filters(query) ==
    IF SearchPart("amp", LowerText(query))
    THEN [NoFilters EXCEPT !.category = <<"amplifier">>]
    ELSE NoFilters

NoParams ==
    [speakers |-> <<>>, transformer_watts |-> <<>>,
     recommend_transformer_for |-> <<>>, impedances |-> <<>>,
     connection |-> <<>>]

\* extract_calculation_params: "4x30W" gives the speaker list, and the
\* transformer capacity when "amp" follows it after white space only
\* (r'(\d+)\s*W\s*(?:transformer|amp|amplifier)'); the words above give no
\* impedance, connection or recommendation parameter
extract_calculation_params(query) ==
    LET speakers ==
            IF \E i \in 1..Len(query) : query[i] = "4x30W"
            THEN << <<30, 30, 30, 30>> >> ELSE <<>>
        transformer_watts ==
            IF \E i, j \in 1..Len(query) :
                /\ i < j
                /\ query[i] = "4x30W"
                /\ IsPartOf("amp", Lower(query[j]))
                /\ \A k \in (i + 1)..(j - 1) : query[k] = ""
            THEN <<30>> ELSE <<>>
    IN  [NoParams EXCEPT !.speakers = speakers,
                         !.transformer_watts = transformer_watts]

\* ------------------------------------------------------ ElectricalCalculator
RECURSIVE calculate_total_power(_)
calculate_total_power(speakers) ==
    IF speakers = <<>> THEN 0
    ELSE Head(speakers) + calculate_total_power(Tail(speakers))

\* round(n / d, 0) for d > 0, ties to the even neighbour
RoundDiv(n, d) ==
    LET q == n \div d
        r == n % d
    IN  IF 2 * r < d THEN q
        ELSE IF 2 * r > d THEN q + 1
        ELSE IF q % 2 = 0 THEN q ELSE q + 1

\* verify_70v_compatibility refusing a load equal to the capacity
verify_70v_compatibility_Strict(total_watts, transformer_watts) ==
    IF transformer_watts <= 0
    THEN [compatible |-> FALSE, total_load |-> total_watts,
          capacity |-> transformer_watts, headroom_percent |-> 0,
          message |-> "Invalid transformer capacity"]
    ELSE
        LET compatible == total_watts < transformer_watts
            headroom == RoundDiv((transformer_watts - total_watts) * 1000,
                                 transformer_watts)
        IN  [compatible |-> compatible, total_load |-> total_watts,
             capacity |-> transformer_watts, headroom_percent |-> headroom,
             message |-> IF ~compatible THEN "INCOMPATIBLE"
                         ELSE IF headroom < 100 THEN "WARNING: Low headroom"
                         ELSE IF headroom < 200 THEN "Acceptable"
                         ELSE "Good"]

\* verify_70v_compatibility; headroom_percent in tenths of a percent
verify_70v_compatibility(total_watts, transformer_watts) ==
    IF transformer_watts <= 0
    THEN [compatible |-> FALSE, total_load |-> total_watts,
          capacity |-> transformer_watts, headroom_percent |-> 0,
          message |-> "Invalid transformer capacity"]
    ELSE
        LET compatible == total_watts <= transformer_watts
            headroom == RoundDiv((transformer_watts - total_watts) * 1000,
                                 transformer_watts)
        IN  [compatible |-> compatible, total_load |-> total_watts,
             capacity |-> transformer_watts, headroom_percent |-> headroom,
             message |-> IF ~compatible THEN "INCOMPATIBLE"
                         ELSE IF headroom < 100 THEN "WARNING: Low headroom"
                         ELSE IF headroom < 200 THEN "Acceptable"
                         ELSE "Good"]

\* What a function of the calculator does: the value it returns or the
\* exception it lets out
Value(v) == [raised |-> FALSE, error |-> "", value |-> v]

Throw(error) == [raised |-> TRUE, error |-> error, value |-> <<>>]

\* int(n / d) for d > 0: the quotient cut towards zero
Trunc(n, d) == IF n >= 0 THEN n \div d ELSE 0 - ((0 - n) \div d)

RECURSIVE Sum(_)
Sum(values) == IF values = <<>> THEN 0 ELSE Head(values) + Sum(Tail(values))

RECURSIVE Product(_)
Product(values) ==
    IF values = <<>> THEN 1 ELSE Head(values) * Product(Tail(values))

\* calculate_impedance; impedances in ohms, total_impedance in hundredths
\* of an ohm (round(total, 2))
calculate_impedance(speakers, connection) ==
    IF speakers = <<>>
    THEN [total_impedance |-> 0, connection |-> connection, speakers |-> <<>>,
          message |-> "No speakers provided"]
    ELSE
        LET conn == Lower(connection) IN
        IF conn = "series"
        THEN [total_impedance |-> 100 * Sum(speakers), connection |-> conn,
              speakers |-> speakers, message |-> "Series connection"]
        ELSE IF conn = "parallel"
        THEN
            \* sum(1/z for z in speakers if z > 0), as a fraction over the
            \* product of the positive values
            LET Positive(z) == z > 0
                positive == SelectSeq(speakers, Positive)
                all == Product(positive)
                inverses == Sum([i \in 1..Len(positive) |-> all \div positive[i]])
            IN  IF positive = <<>>
                \* 1 / 0: ZeroDivisionError, caught
                THEN [total_impedance |-> 0, connection |-> conn,
                      speakers |-> speakers,
                      message |-> "Error: Cannot have 0 Ohm speaker in parallel"]
                ELSE [total_impedance |-> RoundDiv(100 * all, inverses),
                      connection |-> conn, speakers |-> speakers,
                      message |-> "Parallel connection"]
        ELSE [total_impedance |-> 0, connection |-> conn, speakers |-> speakers,
              message |-> "Error: Connection must be 'series' or 'parallel'"]

STANDARD_TRANSFORMER_SIZES == <<50, 70, 100, 125, 150, 200, 250, 300, 500, 1000>>

\* recommend_transformer; headroom_percent in tenths of a percent
recommend_transformer(total_watts) ==
    LET sizes == STANDARD_TRANSFORMER_SIZES
        min_required == Trunc(12 * total_watts, 10)
        Fits(size) == size >= min_required
        fitting == SelectSeq(sizes, Fits)
        recommended == IF fitting # <<>> THEN fitting[1] ELSE sizes[Len(sizes)]
        Alternative(size) == size >= total_watts /\ size # recommended
    IN  [load_watts |-> total_watts,
         recommended_watts |-> recommended,
         headroom_percent |-> RoundDiv((recommended - total_watts) * 1000, recommended),
         alternatives |-> Limit(SelectSeq(sizes, Alternative), 2)]

\* standard_taps of calculate_70v_tap, in half watts
standard_taps == <<1, 2, 4, 8, 16, 32, 64, 128, 256>>

RECURSIVE Power10(_)
Power10(k) == IF k = 0 THEN 1 ELSE 10 * Power10(k - 1)

\* calculate_70v_tap for a reduction of a whole number of tens of dB, so
\* that 10 ** (-dB / 10) is one over a power of ten.  tap_watts in half
\* watts, target_watts in tenths; actual_reduction_db is <<a, b>> for
\* 10 * log10(a / b), and math.log10 raises ValueError off a / b > 0.
calculate_70v_tap(desired_spl_reduction, full_power_watts) ==
    IF desired_spl_reduction <= 0
    THEN Value([tap_watts |-> 2 * full_power_watts, target_watts |-> <<>>,
                actual_reduction_db |-> <<1, 1>>,
                message |-> "No reduction needed, use full power tap"])
    ELSE
        LET scale == Power10(desired_spl_reduction \div 10)
            \* abs(t - target_watts), times 2 * scale
            Off(t) == LET o == t * scale - 2 * full_power_watts
                      IN  IF o < 0 THEN 0 - o ELSE o
            Allowed(t) == t <= 2 * full_power_watts
            allowed == SelectSeq(standard_taps, Allowed)
            \* min(..., key, default): the first of the least
            closest_tap ==
                IF allowed = <<>> THEN standard_taps[1]
                ELSE allowed[CHOOSE i \in 1..Len(allowed) :
                         /\ \A k \in 1..Len(allowed) : Off(allowed[i]) <= Off(allowed[k])
                         /\ \A k \in 1..(i - 1) : Off(allowed[k]) > Off(allowed[i])]
            target == RoundDiv(10 * full_power_watts, scale)
        IN  IF closest_tap > 0 /\ full_power_watts > 0
            THEN Value([tap_watts |-> closest_tap, target_watts |-> <<target>>,
                        actual_reduction_db |-> <<2 * full_power_watts, closest_tap>>,
                        message |-> "Use tap"])
            ELSE Value([tap_watts |-> closest_tap, target_watts |-> <<target>>,
                        actual_reduction_db |-> <<1, 1>>,
                        message |-> "Use tap"])

\* max_speakers_for_transformer for a whole headroom_percent;
\* actual_headroom_percent in tenths of a percent
max_speakers_for_transformer(transformer_watts, speaker_watts, headroom_percent) ==
    IF speaker_watts <= 0
    THEN Value([max_speakers |-> 0, error |-> "Speaker wattage must be positive"])
    ELSE
        \* int(transformer_watts * (1 - headroom_percent / 100) / speaker_watts)
        LET max_speakers == Trunc(transformer_watts * (100 - headroom_percent),
                                  100 * speaker_watts)
            actual_load == max_speakers * speaker_watts
        IN  IF transformer_watts = 0
            \* (transformer_watts - actual_load) / transformer_watts
            THEN Throw("ZeroDivisionError")
            ELSE Value([max_speakers |-> max_speakers,
                        speaker_watts |-> speaker_watts,
                        total_load |-> actual_load,
                        transformer_watts |-> transformer_watts,
                        actual_headroom_percent |->
                            IF transformer_watts > 0
                            THEN RoundDiv((transformer_watts - actual_load) * 1000,
                                          transformer_watts)
                            ELSE RoundDiv((actual_load - transformer_watts) * 1000,
                                          0 - transformer_watts),
                        error |-> ""])

\* The result dicts of process_calculation, tagged by the branch that made
\* them
CalcResult(type) ==
    [type |-> type, compatible |-> FALSE, total_load |-> 0, capacity |-> 0,
     headroom_percent |-> 0, total_power |-> 0, total_impedance |-> 0,
     connection |-> "", load_watts |-> 0, recommended_watts |-> 0,
     error |-> ""]

\* process_calculation; the key recommend_transformer_for is never read.
\* No function called in its try block raises.
process_calculation(params) ==
    IF params.speakers # <<>> /\ params.transformer_watts # <<>>
    THEN LET result == verify_70v_compatibility(
                 calculate_total_power(params.speakers[1]),
                 params.transformer_watts[1])
         IN  [CalcResult("compatible") EXCEPT
                  !.compatible = result.compatible,
                  !.total_load = result.total_load,
                  !.capacity = result.capacity,
                  !.headroom_percent = result.headroom_percent]
    ELSE IF params.impedances # <<>> /\ params.connection # <<>>
    THEN LET result == calculate_impedance(params.impedances[1],
                                           params.connection[1])
         IN  [CalcResult("total_impedance") EXCEPT
                  !.total_impedance = result.total_impedance,
                  !.connection = result.connection]
    ELSE IF params.speakers # <<>>
    THEN [CalcResult("total_power") EXCEPT
              !.total_power = calculate_total_power(params.speakers[1])]
    ELSE [CalcResult("error") EXCEPT
              !.error = "Could not determine calculation type from parameters"]

\* ---------------------------------------------------------- AnswerGenerator
\* GeneratedAnswer; an answer text is a sequence of lines, a line a sequence
\* of fragments
GeneratedAnswer(answer, citations, confidence, query_type, products_used) ==
    [answer |-> answer, citations |-> citations, confidence |-> confidence,
     query_type |-> query_type, products_used |-> products_used]

Mapping(key, label, unit, norm_key) ==
    [key |-> key, label |-> label, unit |-> unit, norm_key |-> norm_key]

\* spec_mappings of generate_direct_answer: (source_key, label, unit, normalized_key)
spec_mappings ==
    << Mapping("power_watts", "Power", "W", "power_watts"),
       Mapping("Power Handling (Long-term)", "Power", "W", "power_watts"),
       Mapping("freq_min_hz", "Freq Min", "Hz", "freq_min_hz"),
       Mapping("freq_max_hz", "Freq Max", "Hz", "freq_max_hz"),
       Mapping("Freq Response (-3 dB) Freq Range (-10 dB)", "Freq Response", "", "freq_response"),
       Mapping("impedance_ohms", "Impedance", "Ohm", "impedance_ohms"),
       Mapping("Nominal Impedance", "Impedance", "Ohm", "impedance_ohms"),
       Mapping("sensitivity_db", "Sensitivity", "dB", "sensitivity_db"),
       Mapping("Sensitivity (SPL/1W@1m)", "Sensitivity", "dB", "sensitivity_db"),
       Mapping("coverage", "Coverage", "", "coverage"),
       Mapping("Coverage (H x V, or Conical) 1 kHz - 4 kHz Average", "Coverage", "", "coverage"),
       Mapping("voltage_type", "Voltage", "", "voltage_type"),
       Mapping("driver_components", "Drivers", "", "driver_components"),
       Mapping("Driver Components", "Drivers", "", "driver_components"),
       Mapping("weight_kg", "Weight", "kg", "weight_kg"),
       Mapping("color_options", "Colors", "", "color_options"),
       Mapping("environmental", "Environmental", "", "environmental") >>

\* spec_mappings of _fallback_answer: the same list without its last three
fallback_spec_mappings == SubSeq(spec_mappings, 1, 14)

\* The mappings whose source key the specs hold with a value other than None
Rendered(mappings, specs) ==
    LET Present(m) == m.key \in DOMAIN specs /\ specs[m.key] # NULL
    IN  SelectSeq(mappings, Present)

Citation(result, field, value) ==
    [model_name |-> result.model_name, field |-> field, value |-> value,
     pdf_source |-> result.pdf_source]

\* The citations of one product: one for each rendered mapping
CitationsOf(mappings, result) ==
    LET shown == Rendered(mappings, result.specs)
    IN  [i \in 1..Len(shown) |->
            Citation(result, shown[i].norm_key, result.specs[shown[i].key])]

\* generate_direct_answer rating the answer by the similarity score of the
\* product, which a lookup leaves at 0.0
generate_direct_answer_Scored(result) ==
    LET shown == Rendered(spec_mappings, result.specs)
        specs_lines == [i \in 1..Len(shown) |->
            IF shown[i].unit # ""
            THEN <<"- **", shown[i].label, "**: ", result.specs[shown[i].key],
                   " ", shown[i].unit>>
            ELSE <<"- **", shown[i].label, "**: ", result.specs[shown[i].key]>>]
        specs_text == IF specs_lines # <<>> THEN specs_lines
                      ELSE << <<"No specifications available">> >>
        source == IF result.pdf_source \in {NULL, ""} THEN "Bose Product Catalog"
                  ELSE result.pdf_source
    IN  GeneratedAnswer(
            << <<"Based on the specifications for **">> \o result.model_name
                   \o <<"**:">> >>
                \o specs_text \o << <<"*Source: ", source, "*">> >>,
            CitationsOf(spec_mappings, result),
            result.similarity_score,
            "direct_lookup",
            <<result.model_name>>)

\* generate_direct_answer
generate_direct_answer(result) ==
    LET shown == Rendered(spec_mappings, result.specs)
        specs_lines == [i \in 1..Len(shown) |->
            IF shown[i].unit # ""
            THEN <<"- **", shown[i].label, "**: ", result.specs[shown[i].key],
                   " ", shown[i].unit>>
            ELSE <<"- **", shown[i].label, "**: ", result.specs[shown[i].key]>>]
        specs_text == IF specs_lines # <<>> THEN specs_lines
                      ELSE << <<"No specifications available">> >>
        source == IF result.pdf_source \in {NULL, ""} THEN "Bose Product Catalog"
                  ELSE result.pdf_source
    IN  GeneratedAnswer(
            << <<"Based on the specifications for **">> \o result.model_name
                   \o <<"**:">> >>
                \o specs_text \o << <<"*Source: ", source, "*">> >>,
            CitationsOf(spec_mappings, result),
            One,
            "direct_lookup",
            <<result.model_name>>)

\* Flattening of a sequence of sequences
RECURSIVE Concat(_)
Concat(seqs) == IF seqs = <<>> THEN <<>> ELSE Head(seqs) \o Concat(Tail(seqs))

\* _fallback_answer: the specs of the first five results, without the model
_fallback_answer(results) ==
    LET top == Limit(results, 5)
        Block(result) ==
            LET shown == Rendered(fallback_spec_mappings, result.specs) IN
            << <<"**">> \o result.model_name \o <<"**">>
                   \o (IF result.category \notin {NULL, ""}
                       THEN <<" (", result.category, ")">> ELSE <<>>) >>
            \o [i \in 1..Len(shown) |->
                   <<"- ", shown[i].label, ": ", result.specs[shown[i].key]>>
                       \o (IF shown[i].unit # "" THEN <<" ", shown[i].unit>> ELSE <<>>)]
            \o (IF result.ai_summary \notin {NULL, ""}
                THEN << <<"- Summary: ", result.ai_summary>> >> ELSE <<>>)
    IN  GeneratedAnswer(
            Concat([i \in 1..Len(top) |-> Block(top[i])]),
            Concat([i \in 1..Len(top) |-> CitationsOf(fallback_spec_mappings, top[i])]),
            (7 * One) \div 10,
            "semantic_search",
            [i \in 1..Len(top) |-> top[i].model_name])

\* name.lower() in word.lower(): the name is a run of characters of the word
IsInfix(name, word) ==
    \E i \in 0..(Len(word) - Len(name)) :
        SubSeq(word, i + 1, i + Len(name)) = name

\* result.model_name.lower() in answer_text.lower(), both folded to one case
Mentions(answer_text, model_name) ==
    \E i \in 1..Len(answer_text) : IsInfix(UPPER(model_name), UPPER(answer_text[i]))

RECURSIVE SumScores(_)
SumScores(results) ==
    IF results = <<>> THEN 0
    ELSE Head(results).similarity_score + SumScores(Tail(results))

Min(a, b) == IF a < b THEN a ELSE b

\* generate_search_answer that, when the text mentions no product, cites
\* every result and leaves products_used as it is
generate_search_answer_CitesAll(results, completion) ==
    IF results = <<>>
    THEN GeneratedAnswer(
            << <<"I couldn't find any relevant products to answer that query.">> >>,
            <<>>, 0, "semantic_search", <<>>)
    ELSE IF completion.kind # "response" THEN _fallback_answer(results)
    ELSE IF completion.status # 200 THEN _fallback_answer(results)
    ELSE
        LET answer_text == completion.text
            Named(result) == Mentions(answer_text, result.model_name)
            mentioned == SelectSeq(results, Named)
            KeySpecs(result) ==
                LET Held(key) == key \in DOMAIN result.specs
                    keys == SelectSeq(<<"power_watts", "voltage_type", "category">>, Held)
                IN  [i \in 1..Len(keys) |->
                        Citation(result, keys[i], result.specs[keys[i]])]
            cited == IF mentioned # <<>> THEN mentioned ELSE results
            citations == Concat([i \in 1..Len(cited) |-> KeySpecs(cited[i])])
            products_used == [i \in 1..Len(mentioned) |-> mentioned[i].model_name]
            avg_similarity == SumScores(results) \div Len(results)
        IN  GeneratedAnswer(answer_text, citations,
                            Min(avg_similarity + (2 * One) \div 10, One),
                            "semantic_search", products_used)

\* generate_search_answer without the check of the status code
generate_search_answer_NoStatusCheck(results, completion) ==
    IF results = <<>>
    THEN GeneratedAnswer(
            << <<"I couldn't find any relevant products to answer that query.">> >>,
            <<>>, 0, "semantic_search", <<>>)
    ELSE IF completion.kind # "response" THEN _fallback_answer(results)
    ELSE GeneratedAnswer(completion.text, <<>>,
                         Min(SumScores(results) \div Len(results) + (2 * One) \div 10, One),
                         "semantic_search",
                         [i \in 1..Len(results) |-> results[i].model_name])

\* generate_search_answer, given the outcome of its completion call
generate_search_answer(results, completion) ==
    IF results = <<>>
    THEN GeneratedAnswer(
            << <<"I couldn't find any relevant products to answer that query.">> >>,
            <<>>, 0, "semantic_search", <<>>)
    ELSE IF completion.kind # "response" THEN _fallback_answer(results)
    ELSE IF completion.status # 200 THEN _fallback_answer(results)
    ELSE
        LET answer_text == completion.text
            Named(result) == Mentions(answer_text, result.model_name)
            mentioned == SelectSeq(results, Named)
            KeySpecs(result) ==
                LET Held(key) == key \in DOMAIN result.specs
                    keys == SelectSeq(<<"power_watts", "voltage_type", "category">>, Held)
                IN  [i \in 1..Len(keys) |->
                        Citation(result, keys[i], result.specs[keys[i]])]
            citations == Concat([i \in 1..Len(mentioned) |-> KeySpecs(mentioned[i])])
            products_used ==
                IF mentioned # <<>>
                THEN [i \in 1..Len(mentioned) |-> mentioned[i].model_name]
                ELSE [i \in 1..Len(results) |-> results[i].model_name]
            avg_similarity == SumScores(results) \div Len(results)
        IN  GeneratedAnswer(answer_text, citations,
                            Min(avg_similarity + (2 * One) \div 10, One),
                            "semantic_search", products_used)

\* f"{x:.1f}" of a value kept in tenths
Fixed1(t) ==
    LET a == IF t < 0 THEN 0 - t ELSE t IN
    (IF t < 0 THEN <<"-">> ELSE <<>>) \o <<ToString(a \div 10), ".", ToString(a % 10)>>

\* generate_calculation_answer
generate_calculation_answer(calc_result) ==
    IF calc_result.type = "error"
    THEN [answer |-> << <<"Calculation error: ", calc_result.error>> >>,
          citations |-> <<>>, confidence |-> 0, query_type |-> "calculation",
          products_used |-> <<>>]
    ELSE
        LET answer ==
            IF calc_result.type = "compatible"
            THEN << <<"**70V Compatibility Check**">>,
                    <<IF calc_result.compatible THEN "Yes" ELSE "No",
                      ", this configuration is ",
                      IF calc_result.compatible THEN "compatible" ELSE "NOT compatible">>,
                    <<"- **Total Load**: ", ToString(calc_result.total_load), " W">>,
                    <<"- **Transformer Capacity**: ", ToString(calc_result.capacity), " W">>,
                    <<"- **Headroom**: ">> \o Fixed1(calc_result.headroom_percent) \o <<"%">>,
                    <<IF calc_result.compatible
                      THEN "The total speaker load is within the transformer's capacity."
                      ELSE "The total speaker load exceeds the transformer's capacity.">> >>
            ELSE IF calc_result.type = "total_impedance"
            THEN << <<"**Impedance Calculation**">>,
                    <<"- **Connection Type**: ", calc_result.connection>>,
                    <<"- **Total Impedance**: ",
                      ToString(calc_result.total_impedance \div 100), ".",
                      ToString((calc_result.total_impedance % 100) \div 10),
                      ToString(calc_result.total_impedance % 10), " Ohm">> >>
            ELSE IF calc_result.type = "recommended_watts"
            THEN << <<"**Transformer Recommendation**">>,
                    <<"- **Speaker Load**: ", ToString(calc_result.load_watts), " W">>,
                    <<"- **Recommended Transformer**: ",
                      ToString(calc_result.recommended_watts), " W">>,
                    <<"- **Headroom**: ">> \o Fixed1(calc_result.headroom_percent)
                        \o <<"%">> >>
            ELSE << <<"**Power Calculation**">>,
                    <<"- **Total Power**: ", ToString(calc_result.total_power), " W">> >>
        IN  [answer |-> answer, citations |-> <<>>, confidence |-> One,
             query_type |-> "calculation", products_used |-> <<>>]

\* --------------------------------------------------------------- QueryEngine
\* What a handler does: the answer it returns or the exception it lets out,
\* and the calls it made to the other components and ports
Returned(answer, calls) ==
    [raised |-> FALSE, error |-> "", answer |-> answer, calls |-> calls]

NoAnswer == GeneratedAnswer(<<>>, <<>>, 0, "", <<>>)

Raised(error, calls) ==
    [raised |-> TRUE, error |-> error, answer |-> NoAnswer, calls |-> calls]

\* _handle_semantic_search; env holds the outcome each port gives when called
_handle_semantic_search(products, query, env) ==
    LET filters == extract_filters(query) IN
    IF env.embedded = <<>> /\ env.store # "ok"
        THEN {Raised(env.store, <<"embedding", "catalog">>)}
    ELSE IF env.embedded # <<>> /\ Len(env.embedded[1]) = Dim /\ env.store # "ok"
        THEN {Raised(env.store, <<"embedding", "catalog">>)}
    ELSE
        {IF found.raised
             THEN Raised(found.error, <<"embedding", "catalog">>)
         ELSE IF found.value = <<>>
             THEN Returned(
                 GeneratedAnswer(
                     << <<"I couldn't find any products matching your criteria.">> >>,
                     <<>>, 0, "semantic_search", <<>>),
                 <<"embedding", "catalog">>)
         ELSE Returned(generate_search_answer(found.value, env.synthesis),
                       <<"embedding", "catalog", "generator", "completion">>) :
         found \in semantic_search(products, env.embedded, filters, 0)}

\* _handle_direct_lookup that looks the whole query up when it holds no
\* model name
_handle_direct_lookup_QueryAsName(products, query, env) ==
    LET model_name == extract_model_name(query) IN
    IF model_name = <<>>
        THEN IF env.store # "ok" THEN {Raised(env.store, <<"catalog">>)}
             ELSE {Returned(
                 GeneratedAnswer(
                     << <<"Product '">> \o query
                            \o <<"' was not found in my database.">> >>,
                     <<>>, 0, "direct_lookup", <<>>),
                 <<"catalog">>)}
    ELSE IF env.store # "ok" THEN {Raised(env.store, <<"catalog">>)}
    ELSE
        {IF result = <<>>
             THEN Returned(
                 GeneratedAnswer(
                     << <<"Product '">> \o model_name[1]
                            \o <<"' was not found in my database.">> >>,
                     <<>>, 0, "direct_lookup", <<>>),
                 <<"catalog">>)
         ELSE Returned(generate_direct_answer(result[1]), <<"catalog", "generator">>) :
         result \in direct_lookup(products, model_name[1])}

\* _handle_direct_lookup that searches when the lookup finds nothing
_handle_direct_lookup_SearchOnMiss(products, query, env) ==
    LET model_name == extract_model_name(query) IN
    IF model_name = <<>> THEN _handle_semantic_search(products, query, env)
    ELSE IF env.store # "ok" THEN {Raised(env.store, <<"catalog">>)}
    ELSE UNION
        {IF result = <<>>
             THEN {[done EXCEPT !.calls = <<"catalog">> \o done.calls] :
                   done \in _handle_semantic_search(products, query, env)}
         ELSE {Returned(generate_direct_answer(result[1]), <<"catalog", "generator">>)} :
         result \in direct_lookup(products, model_name[1])}

\* _handle_direct_lookup
_handle_direct_lookup(products, query, env) ==
    LET model_name == extract_model_name(query) IN
    IF model_name = <<>> THEN _handle_semantic_search(products, query, env)
    ELSE IF env.store # "ok" THEN {Raised(env.store, <<"catalog">>)}
    ELSE
        {IF result = <<>>
             THEN Returned(
                 GeneratedAnswer(
                     << <<"Product '">> \o model_name[1]
                            \o <<"' was not found in my database.">> >>,
                     <<>>, 0, "direct_lookup", <<>>),
                 <<"catalog">>)
         ELSE Returned(generate_direct_answer(result[1]), <<"catalog", "generator">>) :
         result \in direct_lookup(products, model_name[1])}

\* _handle_calculation that has the result narrated by the completion port
_handle_calculation_Narrated(query) ==
    LET params == extract_calculation_params(query) IN
    IF params = NoParams
    THEN {Returned(
             GeneratedAnswer(
                 << <<"I couldn't parse the calculation parameters.">> >>,
                 <<>>, 0, "calculation", <<>>),
             <<>>)}
    ELSE {Returned(generate_calculation_answer(process_calculation(params)),
                   <<"calculator", "generator", "completion">>)}

\* _handle_calculation
_handle_calculation(query) ==
    LET params == extract_calculation_params(query) IN
    IF params = NoParams
    THEN {Returned(
             GeneratedAnswer(
                 << <<"I couldn't parse the calculation parameters.">> >>,
                 <<>>, 0, "calculation", <<>>),
             <<>>)}
    ELSE {Returned(generate_calculation_answer(process_calculation(params)),
                   <<"calculator", "generator">>)}

\* Dispatch whose semantic search awaits a reply without a timeout: it has
\* no outcome
Dispatch_SearchHangs(products, user_query, query_type, env) ==
    CASE query_type = "direct_lookup" ->
            _handle_direct_lookup(products, user_query, env)
      [] query_type = "calculation" -> _handle_calculation(user_query)
      [] query_type = "purchase_intent" ->
            {Returned(GeneratedAnswer(
                << <<"I am a technical assistant. For pricing and availability, please visit [Sales Portal URL].">> >>,
                <<>>, 0, "purchase_intent", <<>>), <<>>)}
      [] query_type = "domain_violation" ->
            {Returned(GeneratedAnswer(
                << <<"I can only provide information on Bose Professional products.">> >>,
                <<>>, 0, "domain_violation", <<>>), <<>>)}
      [] query_type = "semantic_search" -> {}
      [] OTHER ->
            {Returned(GeneratedAnswer(
                << <<"I'm not sure how to handle that query.">> >>,
                <<>>, 0, "unknown", <<>>), <<>>)}

\* Dispatch without the two guardrail branches: a blocked intent is searched
Dispatch_NoBlock(products, user_query, query_type, env) ==
    CASE query_type = "direct_lookup" ->
            _handle_direct_lookup(products, user_query, env)
      [] query_type = "calculation" -> _handle_calculation(user_query)
      [] query_type \in {"semantic_search", "purchase_intent", "domain_violation"} ->
            _handle_semantic_search(products, user_query, env)
      [] OTHER ->
            {Returned(GeneratedAnswer(
                << <<"I'm not sure how to handle that query.">> >>,
                <<>>, 0, "unknown", <<>>), <<>>)}

\* Step 2 of query: the handler chosen by the intent
Dispatch(products, user_query, query_type, env) ==
    CASE query_type = "direct_lookup" ->
            _handle_direct_lookup(products, user_query, env)
      [] query_type = "calculation" -> _handle_calculation(user_query)
      [] query_type = "purchase_intent" ->
            {Returned(GeneratedAnswer(
                << <<"I am a technical assistant. For pricing and availability, please visit [Sales Portal URL].">> >>,
                <<>>, 0, "purchase_intent", <<>>), <<>>)}
      [] query_type = "domain_violation" ->
            {Returned(GeneratedAnswer(
                << <<"I can only provide information on Bose Professional products.">> >>,
                <<>>, 0, "domain_violation", <<>>), <<>>)}
      [] query_type = "semantic_search" ->
            _handle_semantic_search(products, user_query, env)
      [] OTHER ->
            {Returned(GeneratedAnswer(
                << <<"I'm not sure how to handle that query.">> >>,
                <<>>, 0, "unknown", <<>>), <<>>)}

\* The except clause of query: the answer made of an exception
ErrorAnswer(error) ==
    GeneratedAnswer(<< <<"An error occurred: ", error>> >>, <<>>, 0, "error", <<>>)

\* ------------------------------------------------------------------ state
VARIABLES
    r_pc,           \* router: "idle" or "done" (a classify call returned)
    r_use_llm,      \* router: QueryRouter.use_llm
    r_query,        \* router: the text classified
    r_completion,   \* router: outcome of the completion call, if one was made
    r_intent,       \* router: the QueryType returned
    r_calls,        \* router: outbound calls made by the classify call
    products,       \* the rows of table products
    pc,             \* engine: "idle", "classify", "route" or "answered"
    user_query,     \* engine: the stripped text of the request
    query_type,     \* engine: the intent classify returned
    env,            \* engine: the outcome of each port the request called
    calls,          \* engine: the calls of the request, in order
    classified_at,  \* engine: Len(calls) when classify returned
    answer,         \* engine: the GeneratedAnswer returned
    op_call,        \* retriever: the operation called with its arguments
    op_result,      \* retriever: what the operation returned
    e_cache,        \* embedding client: _cache, from cache key to vector
    e_tasks,        \* embedding client: the embed calls under way, by task
    e_sem,          \* embedding client: the semaphore of the embed_batch call
    e_port          \* embedding port: the vectors it has returned, by cache key

routerVars == <<r_pc, r_use_llm, r_query, r_completion, r_intent, r_calls>>

engineVars == <<pc, user_query, query_type, env, calls, classified_at, answer>>

retrieverVars == <<op_call, op_result>>

embedVars == <<e_cache, e_tasks, e_sem, e_port>>

vars == <<routerVars, products, engineVars, retrieverVars, embedVars>>

Queries == UNION {[1..k -> Words] : k \in 0..MaxQueryLen}

NoCompletion == [kind |-> "none", status |-> 0, text |-> <<>>]

\* ---------------------------------------------------------------- catalogs
Row(model_name, category, series, specs, ai_summary, pdf_source, embedding,
    watts_int, voltage_type) ==
    [model_name |-> model_name, category |-> category, series |-> series,
     specs |-> specs, ai_summary |-> ai_summary, pdf_source |-> pdf_source,
     embedding |-> embedding, watts_int |-> watts_int,
     voltage_type |-> voltage_type]

\* The unit vector along axis k, in direction sign
Axis(k, sign) == [i \in 1..Dim |-> IF i = k THEN sign ELSE 0]

UnitVectors == {Axis(k, sign) : k \in 1..Dim, sign \in {1, -1}}

\* The rows the catalogs of the engine are made of
Pool ==
    { Row(<<"D", "M", "3">>, "loudspeaker", "DesignMax",
          ("power_watts" :> "30") @@ ("Power Handling (Long-term)" :> "60")
              @@ ("voltage_type" :> "70V"),
          NULL, "catalog.pdf", Axis(1, 1), <<30>>, "70V"),
      Row(<<"D", "M", "3", "S">>, "loudspeaker", "FreeSpace",
          ("Nominal Impedance" :> "8") @@ ("power_watts" :> NULL),
          "A compact surface speaker", NULL, <<>>, <<>>, NULL),
      Row(<<"P", "A", "1">>, "amplifier", NULL,
          ("power_watts" :> "60") @@ ("category" :> "amplifier"),
          NULL, "catalog.pdf", Axis(Dim, 1), <<60>>, "70V") }

\* The outcomes of the ports of one request
Stores == {"ok", "connection refused", "connection timed out"}

Embedded == {<<>>, << <<>> >>} \cup {<<v>> : v \in {Axis(1, 1), Axis(Dim, -1)}}

SynthesisTexts == {<<>>, << <<"D", "M", "3", "S">> >>, << <<"N", "o", "n", "e">> >>}

Syntheses ==
    [kind : {"raise", "timeout"}, status : {0}, text : {<<>>}]
        \cup [kind : {"response"}, status : {500}, text : {<<>>}]
        \cup [kind : {"response"}, status : {200}, text : SynthesisTexts]

NoEnv ==
    [classification |-> NoCompletion, store |-> "ok", embedded |-> <<>>,
     synthesis |-> NoCompletion]

\* In a sequence
In(x, seq) == \E i \in 1..Len(seq) : seq[i] = x

\* --------------------------------------------------- QueryRouter on its own
RouterIdle ==
    /\ r_pc = "idle"
    /\ r_use_llm \in BOOLEAN
    /\ r_query = <<>>
    /\ r_completion = NoCompletion
    /\ r_intent = "None"
    /\ r_calls = <<>>

EngineIdle ==
    /\ pc = "idle"
    /\ user_query = <<>>
    /\ query_type = "None"
    /\ env = NoEnv
    /\ calls = <<>>
    /\ classified_at = 0
    /\ answer = NoAnswer

NoCall == [op |-> "none"]

RetrieverIdle == op_call = NoCall /\ op_result = <<>>

\* No embed call under way; an empty cache (no cache file)
NoTask == [pc |-> "idle", via |-> "none", text |-> <<>>, result |-> <<>>]

NoBatch == [concurrency |-> 0, value |-> 0, active |-> FALSE]

\* The texts given to embed: a blank one, one text spelled with and without
\* a leading blank, and another text
EmbedTexts == {<<"">>, <<"find">>, <<"", "find">>, <<"specs">>}

\* _hash_text: the cache key of a text; distinct texts of EmbedTexts have
\* distinct digests
_hash_text(text) == <<"sha256">> \o text

CacheKeys == {_hash_text(Strip(text)) : text \in {t \in EmbedTexts : ~IsBlank(t)}}

EmbedderIdle ==
    /\ e_cache = [key \in CacheKeys |-> <<>>]
    /\ e_tasks = [c \in 1..MaxTasks |-> NoTask]
    /\ e_sem = NoBatch
    /\ e_port = [key \in CacheKeys |-> {}]

RouterInit ==
    RouterIdle /\ EngineIdle /\ RetrieverIdle /\ EmbedderIdle /\ products = {}

\* One call of QueryRouter.classify(query)
RouterClassify ==
    /\ r_pc = "idle"
    /\ \E query \in Queries :
        \E completion \in Completions(MaxRespLen) \cup {NoCompletion} :
            LET result == classify(query, r_use_llm, completion) IN
            /\ (completion = NoCompletion) = (result.calls = <<>>)
            /\ r_query' = query
            /\ r_completion' = completion
            /\ r_intent' = result.intent
            /\ r_calls' = result.calls
    /\ r_pc' = "done"
    /\ UNCHANGED <<r_use_llm, products, engineVars, retrieverVars, embedVars>>

\* The caller takes the result; the router keeps nothing of the call
RouterReturn ==
    /\ r_pc = "done"
    /\ r_pc' = "idle"
    /\ r_query' = <<>>
    /\ r_completion' = NoCompletion
    /\ r_intent' = "None"
    /\ r_calls' = <<>>
    /\ UNCHANGED <<r_use_llm, products, engineVars, retrieverVars, embedVars>>

\* A second call of classify with the text of the call that just returned;
\* the router is as the first call left it, and the completion port answers
\* this call as it will (sampled at temperature 0.1, or failing)
RouterClassifyAgain ==
    /\ r_pc = "done"
    /\ \E completion \in Completions(MaxRespLen) \cup {NoCompletion} :
        LET result == classify(r_query, r_use_llm, completion) IN
        /\ (completion = NoCompletion) = (result.calls = <<>>)
        /\ r_completion' = completion
        /\ r_intent' = result.intent
        /\ r_calls' = result.calls
    /\ UNCHANGED <<r_pc, r_query, r_use_llm, products, engineVars, retrieverVars, embedVars>>

RouterNext == RouterClassify \/ RouterReturn

SpecRouter == RouterInit /\ [][RouterNext]_vars

\* The router called again with the text of its last call
RouterTwiceNext == RouterClassify \/ RouterClassifyAgain \/ RouterReturn

SpecRouterTwice == RouterInit /\ [][RouterTwiceNext]_vars

\* ------------------------------------------------- one QueryEngine request
Init ==
    /\ RouterIdle
    /\ r_use_llm = TRUE
    /\ EngineIdle
    /\ RetrieverIdle
    /\ EmbedderIdle
    /\ products \in SUBSET Pool

\* query(user_query) up to the try block
QueryOf(texts) ==
    /\ pc = "idle"
    /\ \E text \in texts :
        IF IsBlank(text)
        THEN /\ answer' = GeneratedAnswer(<< <<"Please provide a query.">> >>,
                                          <<>>, 0, "error", <<>>)
             /\ pc' = "answered"
             /\ UNCHANGED user_query
        ELSE /\ user_query' = Strip(text)
             /\ pc' = "classify"
             /\ UNCHANGED answer
    /\ UNCHANGED <<query_type, env, calls, classified_at, routerVars, products, retrieverVars, embedVars>>

Query == QueryOf(Queries)

\* Step 1: router.classify(user_query); the engine's router has use_llm set
Classify ==
    /\ pc = "classify"
    /\ \E completion \in Completions(MaxRespLen) \cup {NoCompletion} :
        LET result == classify(user_query, TRUE, completion) IN
        /\ env' = [env EXCEPT !.classification = completion]
        /\ (completion = NoCompletion) = (result.calls = <<>>)
        /\ query_type' = result.intent
        /\ calls' = result.calls
        /\ classified_at' = Len(result.calls)
    /\ pc' = "route"
    /\ UNCHANGED <<user_query, answer, routerVars, products, retrieverVars, embedVars>>

\* Step 2 and the except clause: the handler runs to its return or to an
\* exception, which becomes the answer of the except clause
Route ==
    /\ pc = "route"
    /\ \E store \in Stores, embedded \in Embedded, synthesis \in Syntheses \cup {NoCompletion} :
        LET drawn == [env EXCEPT !.store = store, !.embedded = embedded,
                                 !.synthesis = synthesis]
        IN  /\ env' = drawn
            /\ \E done \in Dispatch(products, user_query, query_type, drawn) :
                \* the outcome of a port that was not called is not drawn
                /\ ~In("catalog", done.calls) => store = "ok"
                /\ ~In("embedding", done.calls) => embedded = <<>>
                /\ In("completion", done.calls) = (synthesis # NoCompletion)
                /\ calls' = calls \o done.calls
                /\ answer' = IF done.raised THEN ErrorAnswer(done.error)
                              ELSE done.answer
    /\ pc' = "answered"
    /\ UNCHANGED <<user_query, query_type, classified_at, routerVars, products, retrieverVars, embedVars>>

\* The caller has the answer; nothing of the request is kept
Return ==
    /\ pc = "answered"
    /\ pc' = "idle"
    /\ user_query' = <<>>
    /\ query_type' = "None"
    /\ env' = NoEnv
    /\ calls' = <<>>
    /\ classified_at' = 0
    /\ answer' = NoAnswer
    /\ UNCHANGED <<routerVars, products, retrieverVars, embedVars>>

Next == Query \/ Classify \/ Route \/ Return

Spec == Init /\ [][Next]_vars

\* A request once made is run to its end: query is one coroutine on the event
\* loop, and each of its awaits ends, by a reply, an error or the timeout of
\* its client (router.py:136, embeddings.py:88, generator.py:103,
\* database.py:82). Nothing obliges a caller to make a request.
\* The requests are those of at most MaxLiveQueryLen words.
LiveQueries == UNION {[1..k -> Words] : k \in 0..MaxLiveQueryLen}

\* The catalog is empty or holds every row of the pool
LiveInit ==
    /\ RouterIdle
    /\ r_use_llm = TRUE
    /\ EngineIdle
    /\ RetrieverIdle
    /\ EmbedderIdle
    /\ products \in {{}, Pool}

LiveQuery == QueryOf(LiveQueries)

LiveNext == LiveQuery \/ Classify \/ Route \/ Return

SpecLive == LiveInit /\ [][LiveNext]_vars /\ WF_vars(Classify) /\ WF_vars(Route)

\* ------------------------------------------- HybridRetriever.semantic_search
Filters ==
    [min_watts : {<<>>, <<50>>}, max_watts : {<<>>, <<50>>},
     voltage_type : {<<>>, <<"70V">>}, category : {<<>>, <<"loudspeaker">>},
     series : {<<>>, <<"DesignMax">>}]

SearchInit ==
    /\ RouterIdle
    /\ r_use_llm = TRUE
    /\ EngineIdle
    /\ RetrieverIdle
    /\ EmbedderIdle
    /\ products \in SUBSET Pool

\* One call of semantic_search(query, filters, limit); limit 0 is no limit
\* given, embedded is what embed_query returns for the query
Search ==
    /\ op_call = NoCall
    /\ \E filters \in Filters, limit \in 0..MaxLimit,
          embedded \in {<<>>, << <<>> >>} \cup {<<v>> : v \in UnitVectors} :
        /\ op_call' = [op |-> "semantic_search", filters |-> filters,
                    limit |-> limit, embedded |-> embedded]
        /\ op_result' \in semantic_search(products, embedded, filters, limit)
    /\ UNCHANGED <<routerVars, products, engineVars, embedVars>>

\* The caller takes the result
Done ==
    /\ op_call # NoCall
    /\ op_call' = NoCall
    /\ op_result' = <<>>
    /\ UNCHANGED <<routerVars, products, engineVars, embedVars>>

SearchNext == Search \/ Done

SpecSearch == SearchInit /\ [][SearchNext]_vars

\* --------------------------------------------- HybridRetriever.direct_lookup
NameChars == {"a", "A", "_"}

Names(n) == UNION {[1..k -> NameChars] : k \in 0..n}

\* A row of which only the model name matters
NameRow(model_name) ==
    Row(model_name, NULL, NULL, <<>>, NULL, NULL, <<>>, <<>>, NULL)

LookupInit ==
    /\ RouterIdle
    /\ r_use_llm = TRUE
    /\ EngineIdle
    /\ RetrieverIdle
    /\ EmbedderIdle
    /\ \E names \in SUBSET (Names(MaxNameLen) \ {<<>>}) :
        /\ Cardinality(names) <= MaxRows
        /\ products = {NameRow(n) : n \in names}

\* One call of direct_lookup(model_name)
Lookup ==
    /\ op_call = NoCall
    /\ \E model_name \in Names(MaxNameLen) :
        /\ op_call' = [op |-> "direct_lookup", model_name |-> model_name]
        /\ op_result' \in direct_lookup(products, model_name)
    /\ UNCHANGED <<routerVars, products, engineVars, embedVars>>

LookupNext == Lookup \/ Done

SpecLookup == LookupInit /\ [][LookupNext]_vars

\* ---------------------------------------------- HybridRetriever.find_similar
SimilarNames == {<<"A">>, <<"a">>, <<"D">>, <<"M">>}

\* A row of which the name, the category and the embedding matter
SimilarRow(model_name, category, embedding) ==
    Row(model_name, category, NULL, <<>>, NULL, NULL, embedding, <<>>, NULL)

SimilarCategories == {"loudspeaker", "amplifier", NULL}

SimilarEmbeddings == {<<>>, Axis(1, 1), Axis(1, -1), Axis(Dim, 1)}

SimilarInit ==
    /\ RouterIdle
    /\ r_use_llm = TRUE
    /\ EngineIdle
    /\ RetrieverIdle
    /\ EmbedderIdle
    /\ \E names \in SUBSET SimilarNames :
        /\ Cardinality(names) <= MaxSimilarRows
        /\ \E category \in [names -> SimilarCategories],
              embedding \in [names -> SimilarEmbeddings] :
            products = {SimilarRow(n, category[n], embedding[n]) : n \in names}

\* One call of find_similar(model_name, limit)
Similar ==
    /\ op_call = NoCall
    /\ \E model_name \in SimilarNames, limit \in 0..MaxLimit :
        /\ op_call' = [op |-> "find_similar", model_name |-> model_name,
                       limit |-> limit]
        /\ op_result' \in find_similar(products, model_name, limit)
    /\ UNCHANGED <<routerVars, products, engineVars, embedVars>>

SimilarNext == Similar \/ Done

SpecSimilar == SimilarInit /\ [][SimilarNext]_vars

\* ----------------------------- ElectricalCalculator and the answers from it
\* Wattages and impedances of one speaker; lists of up to MaxSpeakers of them
SpeakerWatts == {-1, 0, 1, 7, 25, 30}

Impedances == {-8, 0, 4, 8}

ListsOf(values) == UNION {[1..k -> values] : k \in 0..MaxSpeakers}

Connections == {"series", "parallel", "Parallel", "star"}

\* The parameter dicts given to process_calculation
Params ==
    [speakers : {<<>>} \cup {<<l>> : l \in ListsOf({25, 30})},
     transformer_watts : {<<>>, <<0>>, <<50>>},
     recommend_transformer_for : {<<>>, <<200>>},
     impedances : {<<>>, << <<0, 8>> >>, << <<8, 8>> >>},
     connection : {<<>>, <<"series">>, <<"parallel">>}]

DeterministicInit ==
    /\ RouterIdle
    /\ r_use_llm = TRUE
    /\ EngineIdle
    /\ RetrieverIdle
    /\ EmbedderIdle
    /\ products = Pool

TotalPower ==
    /\ op_call = NoCall
    /\ \E speakers \in ListsOf(SpeakerWatts) :
        /\ op_call' = [op |-> "calculate_total_power", speakers |-> speakers]
        /\ op_result' = Value(calculate_total_power(speakers))
    /\ UNCHANGED <<routerVars, products, engineVars, embedVars>>

Verify ==
    /\ op_call = NoCall
    /\ \E total_watts \in 0..MaxWatts, transformer_watts \in (0 - 1)..MaxWatts :
        /\ op_call' = [op |-> "verify_70v_compatibility",
                       total_watts |-> total_watts,
                       transformer_watts |-> transformer_watts]
        /\ op_result' = Value(verify_70v_compatibility(total_watts, transformer_watts))
    /\ UNCHANGED <<routerVars, products, engineVars, embedVars>>

Impedance ==
    /\ op_call = NoCall
    /\ \E speakers \in ListsOf(Impedances), connection \in Connections :
        /\ op_call' = [op |-> "calculate_impedance", speakers |-> speakers,
                       connection |-> connection]
        /\ op_result' = Value(calculate_impedance(speakers, connection))
    /\ UNCHANGED <<routerVars, products, engineVars, embedVars>>

Recommend ==
    /\ op_call = NoCall
    /\ \E total_watts \in 0..MaxLoad :
        /\ op_call' = [op |-> "recommend_transformer", total_watts |-> total_watts]
        /\ op_result' = Value(recommend_transformer(total_watts))
    /\ UNCHANGED <<routerVars, products, engineVars, embedVars>>

Tap ==
    /\ op_call = NoCall
    /\ \E desired_spl_reduction \in {-10, 0, 10, 20},
          full_power_watts \in (0 - 1)..MaxWatts :
        /\ op_call' = [op |-> "calculate_70v_tap",
                       desired_spl_reduction |-> desired_spl_reduction,
                       full_power_watts |-> full_power_watts]
        /\ op_result' = calculate_70v_tap(desired_spl_reduction, full_power_watts)
    /\ UNCHANGED <<routerVars, products, engineVars, embedVars>>

MaxSpeakersFor ==
    /\ op_call = NoCall
    /\ \E transformer_watts \in (0 - 1)..MaxWatts, speaker_watts \in SpeakerWatts,
          headroom_percent \in {0, 20, 100} :
        /\ op_call' = [op |-> "max_speakers_for_transformer",
                       transformer_watts |-> transformer_watts,
                       speaker_watts |-> speaker_watts,
                       headroom_percent |-> headroom_percent]
        /\ op_result' = max_speakers_for_transformer(
                            transformer_watts, speaker_watts, headroom_percent)
    /\ UNCHANGED <<routerVars, products, engineVars, embedVars>>

\* generate_calculation_answer on what process_calculation returns
CalculationAnswer ==
    /\ op_call = NoCall
    /\ \E params \in Params :
        /\ op_call' = [op |-> "generate_calculation_answer", params |-> params]
        /\ op_result' = Value(generate_calculation_answer(process_calculation(params)))
    /\ UNCHANGED <<routerVars, products, engineVars, embedVars>>

\* generate_direct_answer on a product retrieved from the catalog
DirectAnswer ==
    /\ op_call = NoCall
    /\ \E row \in products :
        /\ op_call' = [op |-> "generate_direct_answer", model_name |-> row.model_name]
        /\ op_result' = Value(generate_direct_answer(_row_to_result(row)))
    /\ UNCHANGED <<routerVars, products, engineVars, embedVars>>

DeterministicNext ==
    \/ TotalPower \/ Verify \/ Impedance \/ Recommend \/ Tap \/ MaxSpeakersFor
    \/ CalculationAnswer \/ DirectAnswer \/ Done

SpecDeterministic == DeterministicInit /\ [][DeterministicNext]_vars

\* ---------------------------------------------------------- EmbeddingClient
\* The vectors the embedding port answers with: two of the configured
\* dimension and one that is longer
PortVectors == {Axis(1, 1), Axis(Dim, -1), [i \in 1..(Dim + 1) |-> 0]}

\* What the POST to /api/embeddings comes to: an exception, a timeout, or a
\* response with its status and the 'embedding' member of its body, if any
Replies ==
    [kind : {"raise", "timeout"}, status : {0}, embedding : {<<>>}]
        \cup [kind : {"response"}, status : {500}, embedding : {<<>>}]
        \cup [kind : {"response"}, status : {200},
              embedding : {<<>>} \cup {<<v>> : v \in PortVectors}]

\* embed up to its await of the POST: None for a blank text, the cached
\* vector on a hit, and otherwise the call is made
embed_begin(cache, text) ==
    IF IsBlank(text) THEN [pc |-> "done", result |-> <<>>]
    ELSE IF cache[_hash_text(Strip(text))] # <<>>
        THEN [pc |-> "done", result |-> cache[_hash_text(Strip(text))]]
    ELSE [pc |-> "posting", result |-> <<>>]

\* embed from the reply on: the result (<<>> is None) and whether it is
\* written to the cache; data.get('embedding', []) is [] without the member
embed_end(reply) ==
    IF reply.kind # "response" THEN [result |-> <<>>, cached |-> FALSE]
    ELSE IF reply.status # 200 THEN [result |-> <<>>, cached |-> FALSE]
    ELSE LET embedding == IF reply.embedding = <<>> THEN <<>>
                          ELSE reply.embedding[1] IN
         [result |-> <<embedding>>, cached |-> TRUE]

\* asyncio.Semaphore.locked that never holds a task back
locked_Never(sem) == FALSE

\* asyncio.Semaphore.locked: no task can enter
locked(sem) == sem.value = 0

EmbedInit ==
    /\ RouterIdle
    /\ r_use_llm = TRUE
    /\ EngineIdle
    /\ RetrieverIdle
    /\ EmbedderIdle
    /\ products = {}

\* embed(text), called on its own by some task
EmbedCall ==
    /\ ~e_sem.active
    /\ \E c \in 1..MaxTasks, text \in EmbedTexts :
        /\ e_tasks[c].pc = "idle"
        /\ LET begun == embed_begin(e_cache, text) IN
           e_tasks' = [e_tasks EXCEPT ![c] =
               [pc |-> begun.pc, via |-> "embed", text |-> text,
                result |-> begun.result]]
    /\ UNCHANGED <<e_cache, e_sem, e_port>>
    /\ UNCHANGED <<routerVars, products, engineVars, retrieverVars>>

\* embed_batch(texts, concurrency): the semaphore and one task for each text
EmbedBatch ==
    /\ ~e_sem.active
    /\ \A c \in 1..MaxTasks : e_tasks[c].pc = "idle"
    /\ \E n \in 0..MaxTasks, concurrency \in 0..MaxConcurrency :
        \E texts \in [1..n -> EmbedTexts] :
            /\ e_tasks' = [c \in 1..MaxTasks |->
                   IF c <= n
                   THEN [pc |-> "queued", via |-> "batch", text |-> texts[c],
                         result |-> <<>>]
                   ELSE NoTask]
            /\ e_sem' = [concurrency |-> concurrency, value |-> concurrency,
                         active |-> TRUE]
    /\ UNCHANGED <<e_cache, e_port>>
    /\ UNCHANGED <<routerVars, products, engineVars, retrieverVars>>

\* embed_with_semaphore: a task enters the semaphore and runs embed up to its
\* await; an embed that returns at once leaves the semaphore at once
BatchEnter ==
    /\ e_sem.active
    /\ ~locked(e_sem)
    /\ \E c \in 1..MaxTasks :
        /\ e_tasks[c].pc = "queued"
        /\ LET begun == embed_begin(e_cache, e_tasks[c].text) IN
           /\ e_tasks' = [e_tasks EXCEPT ![c].pc = begun.pc,
                                         ![c].result = begun.result]
           /\ e_sem' = IF begun.pc = "posting"
                       THEN [e_sem EXCEPT !.value = @ - 1] ELSE e_sem
    /\ UNCHANGED <<e_cache, e_port>>
    /\ UNCHANGED <<routerVars, products, engineVars, retrieverVars>>

\* The POST of a task comes back and embed runs to its return; a task of a
\* batch then leaves the semaphore
PortReply ==
    /\ \E c \in 1..MaxTasks, reply \in Replies :
        /\ e_tasks[c].pc = "posting"
        /\ LET cache_key == _hash_text(Strip(e_tasks[c].text))
               ended == embed_end(reply)
           IN
           /\ e_tasks' = [e_tasks EXCEPT ![c].pc = "done",
                                         ![c].result = ended.result]
           /\ e_cache' = IF ended.cached
                         THEN [e_cache EXCEPT ![cache_key] = ended.result]
                         ELSE e_cache
           /\ e_port' = IF reply.kind = "response" /\ reply.status = 200
                             /\ reply.embedding # <<>>
                        THEN [e_port EXCEPT ![cache_key] = @ \cup {reply.embedding[1]}]
                        ELSE e_port
           /\ e_sem' = IF e_tasks[c].via = "batch"
                       THEN [e_sem EXCEPT !.value = @ + 1] ELSE e_sem
    /\ UNCHANGED <<routerVars, products, engineVars, retrieverVars>>

\* The caller of embed has its result
EmbedReturn ==
    /\ \E c \in 1..MaxTasks :
        /\ e_tasks[c].pc = "done"
        /\ e_tasks[c].via = "embed"
        /\ e_tasks' = [e_tasks EXCEPT ![c] = NoTask]
    /\ UNCHANGED <<e_cache, e_sem, e_port>>
    /\ UNCHANGED <<routerVars, products, engineVars, retrieverVars>>

\* asyncio.gather returns the results of the tasks, in the order of the texts
BatchReturn ==
    /\ e_sem.active
    /\ \A c \in 1..MaxTasks : e_tasks[c].pc \in {"idle", "done"}
    /\ e_tasks' = [c \in 1..MaxTasks |-> NoTask]
    /\ e_sem' = NoBatch
    /\ UNCHANGED <<e_cache, e_port>>
    /\ UNCHANGED <<routerVars, products, engineVars, retrieverVars>>

EmbedNext ==
    EmbedCall \/ EmbedBatch \/ BatchEnter \/ PortReply \/ EmbedReturn \/ BatchReturn

SpecEmbedding == EmbedInit /\ [][EmbedNext]_vars

\* ---------------------------------------------------------------- C1
\* C1: classify returns PURCHASE_INTENT for every non-empty query matching a
\* purchase pattern, and DOMAIN_VIOLATION for every query matching a
\* competitor pattern and no purchase pattern, whatever rule patterns the
\* query also matches, and issues no completion call in either case.
C1_GuardrailPrecedence ==
    r_pc = "done" =>
        /\ (r_query # <<>> /\ _check_purchase_intent(r_query))
                => (r_intent = "purchase_intent" /\ r_calls = <<>>)
        /\ (_check_domain_violation(r_query) /\ ~_check_purchase_intent(r_query))
                => (r_intent = "domain_violation" /\ r_calls = <<>>)

\* A competitor name next to calculation phrasing was classified
C1_Witness ==
    /\ r_pc = "done"
    /\ r_use_llm
    /\ _check_domain_violation(r_query)
    /\ MatchesCalculation(r_query)
    /\ r_intent = "domain_violation"

\* ---------------------------------------------------------------- C8
\* The text names one of the three labels in full
NamesLabel(text) ==
    \E i \in 1..Len(text) :
        Upper(text[i]) \in {"DIRECT_LOOKUP", "SEMANTIC_SEARCH", "CALCULATION"}

\* The text holds one of the fragments _llm_classify reads as a lookup or a
\* calculation
HoldsKeyword(text) ==
    \E f \in {"DIRECT", "LOOKUP", "CALCULATION", "CALC"} : Contains(text, f)

NoRuleMatched(query) ==
    /\ ~IsBlank(query)
    /\ ~_check_purchase_intent(query)
    /\ ~_check_domain_violation(query)
    /\ ~MatchesCalculation(query)
    /\ ~MatchesLookup(query)
    /\ ~MatchesSearch(query)

\* The part of C8 about when the call is made and how often
C8_CallDiscipline ==
    /\ Len(r_calls) <= 1
    /\ r_calls # <<>> => (NoRuleMatched(r_query) /\ r_use_llm)
    /\ (NoRuleMatched(r_query) /\ ~r_use_llm)
            => (r_intent = "semantic_search" /\ r_calls = <<>>)

\* C8 as stated: classify calls the completion port only when no guardrail
\* and no rule pattern matched and use_llm is set, at most once, and returns
\* SEMANTIC_SEARCH whenever the call raises, returns a non-200 status or
\* yields text naming none of the three labels; with use_llm unset it
\* returns SEMANTIC_SEARCH with no call.
C8_Original ==
    r_pc = "done" =>
        /\ C8_CallDiscipline
        /\ (r_calls # <<>> /\ (\/ r_completion.kind = "raise"
                               \/ r_completion.status # 200
                               \/ ~NamesLabel(r_completion.text)))
                => r_intent = "semantic_search"

\* C8 amended: ... or yields text that, upper-cased, holds none of the
\* fragments DIRECT, LOOKUP and CALC.
C8_LLMFallback ==
    r_pc = "done" =>
        /\ C8_CallDiscipline
        /\ (r_calls # <<>> /\ (\/ r_completion.kind = "raise"
                               \/ r_completion.status # 200
                               \/ ~HoldsKeyword(r_completion.text)))
                => r_intent = "semantic_search"

\* The completion answered 200 with a text that holds no keyword
C8_Witness ==
    /\ r_pc = "done"
    /\ r_calls = <<"completion">>
    /\ r_completion.kind = "response"
    /\ r_completion.status = 200
    /\ r_completion.text # <<>>
    /\ ~HoldsKeyword(r_completion.text)
    /\ r_intent = "semantic_search"

\* ---------------------------------------------------------------- C9
\* C9: for a query matching no guardrail pattern, classify returns
\* CALCULATION if a calculation pattern matches, otherwise DIRECT_LOOKUP if a
\* lookup pattern matches, otherwise SEMANTIC_SEARCH if a search pattern
\* matches.
C9_RuleOrder ==
    (/\ r_pc = "done"
     /\ ~_check_purchase_intent(r_query)
     /\ ~_check_domain_violation(r_query)) =>
        /\ MatchesCalculation(r_query) => r_intent = "calculation"
        /\ (~MatchesCalculation(r_query) /\ MatchesLookup(r_query))
                => r_intent = "direct_lookup"
        /\ (~MatchesCalculation(r_query) /\ ~MatchesLookup(r_query)
                /\ MatchesSearch(r_query)) => r_intent = "semantic_search"

\* A query matching all three rule groups was classified
C9_Witness ==
    /\ r_pc = "done"
    /\ ~_check_purchase_intent(r_query)
    /\ ~_check_domain_violation(r_query)
    /\ MatchesCalculation(r_query)
    /\ MatchesLookup(r_query)
    /\ MatchesSearch(r_query)
    /\ r_intent = "calculation"

\* ---------------------------------------------------------------- C2
\* The calls of the request made after classify returned
AfterClassify == SubSeq(calls, classified_at + 1, Len(calls))

Blocked == query_type \in {"purchase_intent", "domain_violation"}

CannedAnswers ==
    {GeneratedAnswer(
         << <<"I am a technical assistant. For pricing and availability, please visit [Sales Portal URL].">> >>,
         <<>>, 0, "purchase_intent", <<>>),
     GeneratedAnswer(
         << <<"I can only provide information on Bose Professional products.">> >>,
         <<>>, 0, "domain_violation", <<>>)}

\* C2: in a request classified PURCHASE_INTENT or DOMAIN_VIOLATION no call to
\* the retriever, the embedding port, the calculator or the answer generator
\* occurs between classification and the return of the fixed canned answer.
C2_BlockedTouchesNothing ==
    Blocked =>
        /\ \A i \in 1..Len(AfterClassify) :
            AfterClassify[i] \notin {"catalog", "embedding", "calculator",
                                     "generator", "completion"}
        /\ pc = "answered" =>
            (answer \in CannedAnswers /\ answer.query_type = query_type)

\* A blocked request that names a product of the catalog was answered
C2_Witness ==
    /\ pc = "answered"
    /\ Blocked
    /\ extract_model_name(user_query) # <<>>
    /\ \E r \in products : r.model_name = extract_model_name(user_query)[1]
    /\ answer \in CannedAnswers

\* ---------------------------------------------------------------- C3
\* The handler of the request let an exception out: the store was down, or
\* it rejected the query vector
HandlerRaised ==
    \/ env.store # "ok"
    \/ (env.embedded # <<>> /\ Len(env.embedded[1]) # Dim)

\* C3: whenever a component raises during a request, query returns an answer
\* with query_type 'error' whose text is a generic message that does not
\* depend on the exception raised.
C3_GenericErrorAnswer ==
    (pc = "answered" /\ HandlerRaised) =>
        /\ answer.query_type = "error"
        /\ \A e \in Stores \cup {"different vector dimensions"} :
            ~In(e, answer.answer[1])

\* ---------------------------------------------------------------- C4
\* C4: once a request is classified CALCULATION, its answer is produced with
\* no completion, embedding or catalog call.
C4_CalculationIsLocal ==
    query_type = "calculation" =>
        \A i \in 1..Len(AfterClassify) :
            AfterClassify[i] \notin {"completion", "embedding", "catalog"}

\* A calculation was answered from the calculator's result
C4_Witness ==
    /\ pc = "answered"
    /\ query_type = "calculation"
    /\ In("calculator", AfterClassify)
    /\ answer.query_type = "calculation"
    /\ answer.confidence = One

\* ---------------------------------------------------------------- C5
\* C5: for every citation of a direct-lookup answer, the product's stored
\* specs map the citation's field to the citation's value.
C5_CitationsAreStoredFacts ==
    (pc = "answered" /\ answer.query_type = "direct_lookup") =>
        \A i \in 1..Len(answer.citations) :
            LET c == answer.citations[i] IN
            \E r \in products :
                /\ r.model_name = c.model_name
                /\ c.field \in DOMAIN r.specs
                /\ r.specs[c.field] = c.value

\* ---------------------------------------------------------------- C6
\* Every predicate present in the filter holds of the row
SatisfiesFilter(row, filters) ==
    /\ filters.min_watts # <<>> =>
        (row.watts_int # <<>> /\ row.watts_int[1] >= filters.min_watts[1])
    /\ filters.max_watts # <<>> =>
        (row.watts_int # <<>> /\ row.watts_int[1] <= filters.max_watts[1])
    /\ filters.voltage_type # <<>> => row.voltage_type = filters.voltage_type[1]
    /\ filters.category # <<>> => row.category = filters.category[1]
    /\ filters.series # <<>> => row.series = filters.series[1]

EffectiveLimit == IF op_call.limit = 0 THEN final_limit ELSE op_call.limit

\* C6: when embedding the query yields no vector, semantic_search returns
\* exactly the first `limit` rows in model_name order of the rows, with or
\* without a stored embedding, that satisfy every predicate present in the
\* filter, each with similarity_score 0.
C6_FilterOnlyFallback ==
    (op_call.op = "semantic_search" /\ op_call.embedded = <<>>) =>
        LET matching == {r \in products : SatisfiesFilter(r, op_call.filters)}
            n == Min(EffectiveLimit, Cardinality(matching))
        IN  /\ ~op_result.raised
            /\ Len(op_result.value) = n
            /\ \A i \in 1..n :
                /\ op_result.value[i].similarity_score = 0
                /\ \E r \in matching :
                    /\ r.model_name = op_result.value[i].model_name
                    \* exactly i - 1 matching rows sort before it
                    /\ Cardinality({o \in matching :
                           NameLess(o.model_name, r.model_name)}) = i - 1

\* ---------------------------------------------------------------- C10
\* C10: direct_lookup(name) returns the row whose model_name equals name
\* case-insensitively when one exists; otherwise the lexicographically first
\* row whose model_name contains name case-insensitively; otherwise none.
C10_ExactThenSubstring ==
    op_call.op = "direct_lookup" =>
        LET name == op_call.model_name
            exact == {r \in products : UPPER(r.model_name) = UPPER(name)}
            containing == {r \in products :
                              IsInfix(UPPER(name), UPPER(r.model_name))}
        IN  IF exact # {}
            THEN op_result # <<>> /\ \E r \in exact : op_result[1].model_name = r.model_name
            ELSE IF containing # {}
            THEN /\ op_result # <<>>
                 /\ \E r \in containing :
                     /\ op_result[1].model_name = r.model_name
                     /\ \A o \in containing : ~NameLess(o.model_name, r.model_name)
            ELSE op_result = <<>>

\* ---------------------------------------------------------------- C7
\* The completion call of generate_search_answer was made and failed
SynthesisFailed ==
    /\ env.synthesis # NoCompletion
    /\ env.synthesis.kind \in {"raise", "timeout"} \/ env.synthesis.status # 200

\* The spec lines of a fallback answer
SpecLines(text) ==
    LET IsSpecLine(line) == line[1] = "- " IN SelectSeq(text, IsSpecLine)

\* C7: when the completion call in generate_search_answer raises, times out
\* or returns a non-200 status, the request ends with a 'semantic_search'
\* answer built from the candidates' specs, with confidence exactly 0.7 and
\* one citation for every spec line rendered; never in the error outcome.
C7_FallbackAnswer ==
    (pc = "answered" /\ SynthesisFailed) =>
        /\ answer.query_type = "semantic_search"
        /\ 10 * answer.confidence = 7 * One
        /\ answer.products_used # <<>>
        /\ \A i \in 1..Len(answer.products_used) :
            \E r \in products : r.model_name = answer.products_used[i]
        /\ Len(answer.citations) = Len(SpecLines(answer.answer))
        /\ \A i \in 1..Len(answer.citations) :
            /\ SpecLines(answer.answer)[i][4] = answer.citations[i].value
            /\ \E r \in products :
                /\ r.model_name = answer.citations[i].model_name
                /\ \E key \in DOMAIN r.specs :
                    r.specs[key] = answer.citations[i].value

\* The synthesis timed out and the fallback rendered spec lines
C7_Witness ==
    /\ pc = "answered"
    /\ env.synthesis.kind = "timeout"
    /\ answer.query_type = "semantic_search"
    /\ Len(answer.citations) >= 2
    /\ Len(answer.products_used) >= 2

\* --------------------------------------------------------------- C11
\* The catalog row a result was made of
RowOf(result) == CHOOSE r \in products : r.model_name = result.model_name

\* The call is a vector search: embed_query gave a vector of the column's
\* length and the caller gave a limit
VectorSearch ==
    /\ op_call.op = "semantic_search"
    /\ op_call.embedded # <<>>
    /\ Len(op_call.embedded[1]) = Dim
    /\ op_call.limit >= 1

\* C11: when the query embedding succeeds, semantic_search with limit >= 1
\* returns exactly the min(limit, n) rows closest in cosine distance to the
\* query vector among the n rows that have a stored embedding and satisfy
\* every predicate of the filter, in ascending distance order; no row
\* lacking an embedding or failing a predicate is returned.
C11_NearestEligibleRows ==
    VectorSearch =>
        LET eligible == {r \in products :
                            r.embedding # <<>> /\ SatisfiesFilter(r, op_call.filters)}
            n == Min(op_call.limit, Cardinality(eligible))
            value == op_result.value
            d(r) == CosineDistance(r.embedding, op_call.embedded[1])
        IN  /\ ~op_result.raised
            /\ Len(value) = n
            /\ \A i \in 1..n :
                \E r \in eligible : r.model_name = value[i].model_name
            /\ \A i, j \in 1..n : i < j =>
                /\ value[i].model_name # value[j].model_name
                /\ d(RowOf(value[i])) <= d(RowOf(value[j]))
            /\ \A r \in eligible :
                (\A i \in 1..n : value[i].model_name # r.model_name) =>
                    \A i \in 1..n : d(RowOf(value[i])) <= d(r)

\* A filtered search over the whole pool kept the nearest row only
C11_Witness ==
    /\ VectorSearch
    /\ products = Pool
    /\ op_call.filters.voltage_type # <<>>
    /\ op_call.limit = 1
    /\ Len(op_result.value) = 1
    /\ op_result.value[1].model_name = <<"P", "A", "1">>

\* --------------------------------------------------------------- C12
\* The row is of the reference's category; a reference without a category
\* has none, and no row is of it
SameCategory(row, ref_row) ==
    ref_row.category # NULL /\ row.category = ref_row.category

\* C12: find_similar(model, limit) returns an empty list when the reference
\* row is missing or has no stored vector; otherwise its result holds
\* neither the reference row nor a row without an embedding, every row of
\* the reference's category precedes every row of another category, rows
\* are in ascending distance within each of the two groups, and at most
\* limit rows are returned.
C12_SimilarOrder ==
    op_call.op = "find_similar" =>
        LET refs == {r \in products :
                        UPPER(r.model_name) = UPPER(op_call.model_name)}
            value == op_result
            n == Len(value)
        IN  IF refs = {} THEN value = <<>>
            ELSE \E ref_row \in refs :
                IF ref_row.embedding = <<>> THEN value = <<>>
                ELSE
                LET d(i) == CosineDistance(RowOf(value[i]).embedding,
                                           ref_row.embedding)
                    same(i) == SameCategory(RowOf(value[i]), ref_row)
                IN  /\ n <= op_call.limit
                    /\ \A i \in 1..n :
                        /\ \E r \in products : r.model_name = value[i].model_name
                        /\ RowOf(value[i]) \notin refs
                        /\ RowOf(value[i]).embedding # <<>>
                    /\ \A i, j \in 1..n : i < j =>
                        /\ ~(same(j) /\ ~same(i))
                        /\ (same(i) <=> same(j)) => d(i) <= d(j)

\* A farther row of the reference's category came before a nearer row of
\* another category
C12_Witness ==
    /\ op_call.op = "find_similar"
    /\ Len(op_result) = 2
    /\ \E ref_row \in products :
        /\ ref_row.model_name = op_call.model_name
        /\ ref_row.embedding # <<>>
        /\ SameCategory(RowOf(op_result[1]), ref_row)
        /\ ~SameCategory(RowOf(op_result[2]), ref_row)
        /\ CosineDistance(RowOf(op_result[1]).embedding, ref_row.embedding)
               > CosineDistance(RowOf(op_result[2]).embedding, ref_row.embedding)

\* --------------------------------------------------------------- C13
\* The completion call of generate_search_answer was made and succeeded
SynthesisSucceeded ==
    /\ env.synthesis # NoCompletion
    /\ env.synthesis.kind = "response"
    /\ env.synthesis.status = 200

\* The key specs of a candidate
KeySpecFields == {"power_watts", "voltage_type", "category"}

\* C13: in generate_search_answer with a successful completion, if no
\* candidate's model name occurs in the generated text, the citations hold
\* the key-spec citations of every candidate that has key specs.
C13_UnmentionedAllCited ==
    (/\ pc = "answered"
     /\ SynthesisSucceeded
     /\ \A i \in 1..Len(answer.products_used) :
            ~Mentions(answer.answer, answer.products_used[i])) =>
        \A i \in 1..Len(answer.products_used) :
            \A r \in products : r.model_name = answer.products_used[i] =>
                \A key \in KeySpecFields \cap DOMAIN r.specs :
                    \E k \in 1..Len(answer.citations) :
                        /\ answer.citations[k].model_name = r.model_name
                        /\ answer.citations[k].field = key
                        /\ answer.citations[k].value = r.specs[key]

\* --------------------------------------------------------------- C14
\* C14 as stated: every answer of the deterministic path has confidence
\* exactly 1.0: generate_direct_answer for any retrieved product and
\* generate_calculation_answer for any result of process_calculation.
C14_Original ==
    op_call.op \in {"generate_direct_answer", "generate_calculation_answer"} =>
        op_result.value.confidence = One

\* process_calculation returns an error dict for the parameters of the call
CalculationFailed ==
    /\ op_call.op = "generate_calculation_answer"
    /\ process_calculation(op_call.params).type = "error"

\* C14 amended: ... and generate_calculation_answer for any result dict of
\* process_calculation that holds no 'error' key; for an error dict the
\* confidence is 0.0.
C14_DeterministicConfidence ==
    op_call.op \in {"generate_direct_answer", "generate_calculation_answer"} =>
        op_result.value.confidence = IF CalculationFailed THEN 0 ELSE One

\* A parallel impedance was computed and rendered
C14_Witness ==
    /\ op_call.op = "generate_calculation_answer"
    /\ op_call.params.speakers = <<>>
    /\ op_call.params.connection = <<"parallel">>
    /\ op_call.params.impedances # <<>>
    /\ op_result.value.confidence = One
    /\ op_result.value.answer[1] = <<"**Impedance Calculation**">>

\* --------------------------------------------------------------- C15
\* The result lists the search of the request can have given
SearchesOfRequest ==
    {found \in semantic_search(products, env.embedded,
                               extract_filters(user_query), 0) : ~found.raised}

\* C15: every answer returned by query has confidence within [0.0, 1.0], and
\* every similarity_score it was computed from lies within [0, 1].
C15_ScoresInUnitRange ==
    pc = "answered" =>
        /\ 0 <= answer.confidence /\ answer.confidence <= One
        /\ (answer.query_type = "semantic_search" /\ env.store = "ok") =>
            \A found \in SearchesOfRequest :
                \A i \in 1..Len(found.value) :
                    /\ 0 <= found.value[i].similarity_score
                    /\ found.value[i].similarity_score <= One

\* --------------------------------------------------------------- C16
\* C16: calculate_impedance(values, 'parallel') returns the dedicated error
\* result (total_impedance 0.0 with an error message, no exception) whenever
\* any element of a non-empty values list is 0.
C16_ZeroInParallel ==
    (/\ op_call.op = "calculate_impedance"
     /\ op_call.connection = "parallel"
     /\ \E i \in 1..Len(op_call.speakers) : op_call.speakers[i] = 0) =>
        /\ ~op_result.raised
        /\ op_result.value.total_impedance = 0
        /\ op_result.value.message = "Error: Cannot have 0 Ohm speaker in parallel"

\* --------------------------------------------------------------- C17
\* C17: for every integer total_watts >= 0, recommended_watts is the
\* smallest standard size s with 10 * s >= 12 * total_watts when such a size
\* exists, and the largest standard size when none exists.
C17_SmallestWithHeadroom ==
    (op_call.op = "recommend_transformer" /\ op_call.total_watts >= 0) =>
        LET sizes == {STANDARD_TRANSFORMER_SIZES[i] :
                         i \in 1..Len(STANDARD_TRANSFORMER_SIZES)}
            enough == {s \in sizes : 10 * s >= 12 * op_call.total_watts}
            recommended == op_result.value.recommended_watts
        IN  IF enough # {}
            THEN recommended \in enough /\ \A s \in enough : recommended <= s
            ELSE recommended = 1000

\* --------------------------------------------------------------- C18
\* The public functions of ElectricalCalculator
CalculatorFunctions ==
    {"calculate_total_power", "verify_70v_compatibility", "calculate_impedance",
     "recommend_transformer", "calculate_70v_tap", "max_speakers_for_transformer"}

\* C18: every public function of the calculator returns a result value or a
\* tagged error for every input, empty lists and zero or negative capacities
\* and wattages included; none raises an exception.
C18_CalculatorIsTotal ==
    op_call.op \in CalculatorFunctions => ~op_result.raised

\* --------------------------------------------------------------- C19
\* What C19 says of compatible and of a capacity that is not positive
C19_Compatible ==
    LET total == op_call.total_watts
        capacity == op_call.transformer_watts
        result == op_result.value
    IN  /\ ~op_result.raised
        /\ result.compatible <=> (capacity > 0 /\ total <= capacity)
        /\ capacity <= 0 => (~result.compatible /\ result.headroom_percent = 0)

\* C19 as stated: ... for capacity > 0 the headroom equals
\* (capacity - total) / capacity * 100.  headroom_percent is in tenths.
C19_Original ==
    op_call.op = "verify_70v_compatibility" =>
        /\ C19_Compatible
        /\ op_call.transformer_watts > 0 =>
            op_result.value.headroom_percent * op_call.transformer_watts
                = (op_call.transformer_watts - op_call.total_watts) * 1000

\* C19 amended: ... for capacity > 0 the headroom equals
\* (capacity - total) / capacity * 100 rounded to one decimal place.
C19_Compatibility ==
    op_call.op = "verify_70v_compatibility" =>
        /\ C19_Compatible
        /\ op_call.transformer_watts > 0 =>
            LET off == op_result.value.headroom_percent * op_call.transformer_watts
                           - (op_call.transformer_watts - op_call.total_watts) * 1000
            IN  /\ 2 * off <= op_call.transformer_watts
                /\ 0 - 2 * off <= op_call.transformer_watts

\* 120 W against 150 W: compatible with 20.0 % of headroom
C19_Witness ==
    /\ op_call.op = "verify_70v_compatibility"
    /\ op_call.total_watts = 120
    /\ op_call.transformer_watts = 150
    /\ op_result.value.compatible
    /\ op_result.value.headroom_percent = 200

\* --------------------------------------------------------------- C20
\* The lookup of the request ran and found no product for the model name
LookupMissed ==
    /\ query_type = "direct_lookup"
    /\ extract_model_name(user_query) # <<>>
    /\ env.store = "ok"
    /\ direct_lookup(products, extract_model_name(user_query)[1]) = {<<>>}

\* The search of the request ran and returned no rows
SearchEmpty ==
    /\ In("embedding", AfterClassify)
    /\ env.store = "ok"
    /\ \A found \in semantic_search(products, env.embedded,
                                     extract_filters(user_query), 0) :
        ~found.raised /\ found.value = <<>>

\* An explicit not-found answer of the given type, made without the
\* generator and its completion port
NotFoundAnswer(type, opening) ==
    /\ answer.query_type = type
    /\ answer.answer[1][1] = opening
    /\ answer.citations = <<>>
    /\ answer.products_used = <<>>
    /\ ~In("generator", AfterClassify)
    /\ ~In("completion", AfterClassify)

\* C20: when direct_lookup finds no product for the extracted model name, or
\* semantic_search returns no rows, query returns an explicit not-found
\* answer whose query_type is 'direct_lookup' or 'semantic_search'
\* accordingly, never 'error', and the answer generator and its completion
\* port are not called.
C20_NotFoundIsNotAnError ==
    pc = "answered" =>
        /\ LookupMissed => NotFoundAnswer("direct_lookup", "Product '")
        /\ SearchEmpty => NotFoundAnswer("semantic_search",
               "I couldn't find any products matching your criteria.")

\* A model missing from a catalog that holds other products was looked up
C20_Witness ==
    /\ pc = "answered"
    /\ LookupMissed
    /\ products # {}
    /\ answer.query_type = "direct_lookup"
    /\ AfterClassify = <<"catalog">>

\* ------------------------------------------------------------------
\* C21: the calculation branch without parameters
\* ------------------------------------------------------------------

\* engine.py:124-130: the query was routed to _handle_calculation and
\* extract_calculation_params found nothing in it
ParamsUnparseable ==
    /\ query_type = "calculation"
    /\ extract_calculation_params(user_query) = NoParams

\* C21: when a query is classified CALCULATION and
\* extract_calculation_params extracts no parameters, the request ends in
\* the Errored outcome (an answer whose query_type is 'error') and the
\* calculator is never invoked.
C21_UnparseableIsErrored ==
    (pc = "answered" /\ ParamsUnparseable) =>
        /\ answer.query_type = "error"
        /\ ~In("calculator", AfterClassify)

\* ------------------------------------------------------------------
\* C22: a lookup request that names no model
\* ------------------------------------------------------------------

\* engine.py:98-103: the intent is DIRECT_LOOKUP and extract_model_name
\* returned None
NoModelName ==
    /\ query_type = "direct_lookup"
    /\ extract_model_name(user_query) = <<>>

\* The calls of _handle_semantic_search and no other call to the store: the
\* query embedding, then the one store call of semantic_search, then at most
\* the generator with its completion
SearchedOnly ==
    AfterClassify \in {<<"embedding", "catalog">>,
                       <<"embedding", "catalog", "generator", "completion">>}

\* The store call of semantic_search raised: the store was unreachable, or it
\* refused a query vector of another dimension than its column
SearchRaised ==
    \/ env.store # "ok"
    \/ env.embedded # <<>> /\ Len(env.embedded[1]) # Dim

\* C22 as stated: when a query is classified DIRECT_LOOKUP and
\* extract_model_name finds no model name, the request is handled as a
\* semantic search with no direct_lookup call to the store, and the returned
\* answer has query_type 'semantic_search'.
C22_Original ==
    (pc = "answered" /\ NoModelName) =>
        /\ SearchedOnly
        /\ answer.query_type = "semantic_search"

\* C22: when a query is classified DIRECT_LOOKUP and extract_model_name
\* finds no model name, the request is handled as a semantic search
\* (extract_filters, then semantic_search) with no direct_lookup call to the
\* store; the returned answer has query_type 'semantic_search' when the
\* search returns and query_type 'error' when its store call raises.
C22_LookupWithoutNameSearches ==
    (pc = "answered" /\ NoModelName) =>
        /\ SearchedOnly
        /\ answer.query_type = IF SearchRaised THEN "error" ELSE "semantic_search"

\* A lookup request without a model name, answered from rows the search found
C22_Witness ==
    /\ pc = "answered"
    /\ NoModelName
    /\ answer.query_type = "semantic_search"
    /\ answer.products_used # <<>>
    /\ AfterClassify = <<"embedding", "catalog", "generator", "completion">>

\* ------------------------------------------------------------------
\* C23: citations, products_used and the rows retrieved
\* ------------------------------------------------------------------

\* The result lists the retriever can have returned to the handler of the
\* request; <<>> alone when the request made no retrieval or the retrieval
\* raised (engine.py:46-94)
RetrievedInRequest ==
    IF pc # "answered" \/ IsBlank(user_query) THEN {<<>>}
    ELSE IF query_type = "direct_lookup" /\ ~NoModelName
        THEN IF env.store # "ok" THEN {<<>>}
             ELSE direct_lookup(products, extract_model_name(user_query)[1])
    ELSE IF query_type = "semantic_search" \/ NoModelName
        THEN IF SearchRaised THEN {<<>>}
             ELSE {found.value : found \in SearchesOfRequest}
    ELSE {<<>>}

\* The model names of a sequence of results or of names
NamesOf(results) == {results[i].model_name : i \in 1..Len(results)}

\* C23: in every GeneratedAnswer returned by query, each citation's
\* model_name is a member of products_used and each member of products_used
\* is a product the retriever returned in that same request; hence answers
\* on paths with no retrieval result carry no citations and no products.
C23_CitedAreUsedAreRetrieved ==
    pc = "answered" =>
        /\ NamesOf(answer.citations)
               \subseteq {answer.products_used[i] : i \in 1..Len(answer.products_used)}
        /\ \E results \in RetrievedInRequest :
               \A i \in 1..Len(answer.products_used) :
                   answer.products_used[i] \in NamesOf(results)
        /\ RetrievedInRequest = {<<>>} =>
               answer.citations = <<>> /\ answer.products_used = <<>>

\* A search found two rows and the text of the completion mentions one of
\* them: that one is cited and used, the other is neither
C23_Witness ==
    /\ pc = "answered"
    /\ answer.query_type = "semantic_search"
    /\ SynthesisSucceeded
    /\ \E results \in RetrievedInRequest : Len(results) = 2
    /\ Len(answer.products_used) = 1
    /\ answer.citations # <<>>

\* ------------------------------------------------------------------
\* C24: classifying the same text twice
\* ------------------------------------------------------------------

OneBranchRan ==
    IF query_type = "None" THEN calls = <<>> /\ answer.query_type = "error"
    ELSE
        /\ answer.query_type \in {"error"} \cup
               (IF NoModelName THEN {"semantic_search"} ELSE {query_type})
        /\ CASE query_type = "calculation" ->
                    AfterClassify \in {<<>>, <<"calculator", "generator">>}
             [] query_type \in {"purchase_intent", "domain_violation", "unknown"} ->
                    AfterClassify = <<>>
             [] query_type = "direct_lookup" /\ ~NoModelName ->
                    AfterClassify \in {<<"catalog">>, <<"catalog", "generator">>}
             [] OTHER -> SearchedOnly

\* C25: every QueryEngine.query call, for every input text and every outcome
\* of its outbound calls, eventually returns exactly one GeneratedAnswer,
\* after classifying at most once and running exactly one terminal branch.
\* Eventually: a request under way can always take its next step, which the
\* fairness of SpecLive then makes it take, and two steps take it to its
\* answer.
C25_EveryRequestReturnsOnce ==
    /\ [](pc \in {"classify", "route"} => ENABLED (Classify \/ Route))
    /\ [][/\ pc = "idle" => pc' \in {"classify", "answered"}
          /\ pc = "classify" => pc' = "route"
          /\ pc = "route" => pc' = "answered"]_vars
    /\ [][answer' # answer =>
             \/ answer = NoAnswer /\ pc # "answered" /\ pc' = "answered"
             \/ pc = "answered" /\ pc' = "idle"]_vars
    /\ [][query_type' # query_type =>
             \/ pc = "classify" /\ query_type = "None"
             \/ pc = "answered" /\ pc' = "idle"]_vars
    /\ [](classified_at <= 1)
    /\ [](pc = "answered" => OneBranchRan)

\* A request whose three ports all failed was answered all the same
C25_Witness ==
    /\ pc = "answered"
    /\ env.classification.kind = "raise"
    /\ env.embedded = <<>>
    /\ env.synthesis.kind = "raise"
    /\ In("embedding", calls)
    /\ answer.query_type = "semantic_search"
    /\ answer.products_used # <<>>

\* ------------------------------------------------------------------
\* C26: one call per port and purpose, no retry
\* ------------------------------------------------------------------

\* How many times a port was called in a run of calls
Count(port, log) == Cardinality({i \in 1..Len(log) : log[i] = port})

\* The calls classify made
WhileClassifying == SubSeq(calls, 1, classified_at)

\* The call failed: it raised, timed out or came back with another status
\* than 200
Failed(completion) ==
    completion # NoCompletion
        /\ (completion.kind # "response" \/ completion.status # 200)

\* C26: within one request each model port is called at most once per
\* purpose (at most one classification completion, one query-embedding call,
\* one synthesis completion), and a failed or timed-out call is never
\* re-issued: the degraded result is produced immediately.
C26_OneCallPerPurpose ==
    /\ Count("completion", WhileClassifying) <= 1
    /\ Count("embedding", WhileClassifying) = 0
    /\ Count("embedding", AfterClassify) <= 1
    /\ Count("completion", AfterClassify) <= 1
    /\ (pc \in {"route", "answered"} /\ Failed(env.classification)) =>
           WhileClassifying = <<"completion">> /\ query_type = "semantic_search"
    /\ (pc = "answered" /\ In("embedding", AfterClassify) /\ env.embedded = <<>>) =>
           SubSeq(AfterClassify, 1, 2) = <<"embedding", "catalog">>
    /\ (pc = "answered" /\ Failed(env.synthesis)) =>
           /\ AfterClassify = <<"embedding", "catalog", "generator", "completion">>
           /\ answer.confidence = (7 * One) \div 10

\* A request all of whose three model calls failed: each was made once
C26_Witness ==
    /\ pc = "answered"
    /\ Failed(env.classification)
    /\ env.embedded = <<>>
    /\ Failed(env.synthesis)
    /\ calls = <<"completion", "embedding", "catalog", "generator", "completion">>
    /\ answer.confidence = (7 * One) \div 10

\* ------------------------------------------------------------------
\* C27: concurrent embed calls for one text
\* ------------------------------------------------------------------

\* The cache key of the text of a task
KeyOf(c) == _hash_text(Strip(e_tasks[c].text))

\* C27: under any interleaving of concurrent embed calls for the same text,
\* the cache ends with at most one entry for that text's key, its value is a
\* vector the port returned for that text, every caller receives a vector
\* the port returned for that text or a failure, and a failed call leaves
\* the cache unchanged.
C27_RacingMissesAreHarmless ==
    /\ [](\A key \in CacheKeys :
            /\ Len(e_cache[key]) <= 1
            /\ e_cache[key] # <<>> => e_cache[key][1] \in e_port[key])
    /\ [](\A c \in 1..MaxTasks :
            (e_tasks[c].pc = "done" /\ e_tasks[c].result # <<>>) =>
                e_tasks[c].result[1] \in e_port[KeyOf(c)])
    /\ [][\A c \in 1..MaxTasks :
            (e_tasks[c].pc = "posting" /\ e_tasks'[c].pc = "done"
                 /\ e_tasks'[c].result = <<>>) => e_cache' = e_cache]_vars

\* ------------------------------------------------------------------
\* C28: the calls of embed_batch in flight
\* ------------------------------------------------------------------

\* The tasks of the batch that are inside embed, awaiting the port
InFlight == {c \in 1..MaxTasks : e_tasks[c].via = "batch" /\ e_tasks[c].pc = "posting"}

C29_VectorsHaveTheDimension ==
    /\ \A c \in 1..MaxTasks :
        (e_tasks[c].pc = "done" /\ e_tasks[c].result # <<>>) =>
            Len(e_tasks[c].result[1]) = Dim
    /\ \A key \in CacheKeys :
        e_cache[key] # <<>> => Len(e_cache[key][1]) = Dim

\* ------------------------------------------------------------------
\* C30: a transformer recommendation asked for
\* ------------------------------------------------------------------

\* router.py:382-386 with no speaker list: the parameters of a query such as
\* 'What transformer do I need for 200W'
RecommendationAsked ==
    /\ op_call.op = "generate_calculation_answer"
    /\ op_call.params.recommend_transformer_for # <<>>
    /\ op_call.params.transformer_watts = <<>>
    /\ op_call.params.speakers = <<>>
    /\ op_call.params.impedances = <<>>

\* C30: a CALCULATION query from which extract_calculation_params derives
\* recommend_transformer_for = N and no speaker list is answered with the
\* result of recommend_transformer(N), rendered by
\* generate_calculation_answer as a transformer recommendation, not as a
\* calculation error.
C30_RecommendationIsAnswered ==
    RecommendationAsked =>
        LET N == op_call.params.recommend_transformer_for[1]
            shown == op_result.value.answer
        IN  /\ ~op_result.raised
            /\ shown[1] = <<"**Transformer Recommendation**">>
            /\ \E i \in 1..Len(shown) :
                   shown[i] = <<"- **Recommended Transformer**: ",
                                ToString(recommend_transformer(N).recommended_watts),
                                " W">>
            /\ op_result.value.confidence = One

====
